---------------------------- MODULE Spec2Model ----------------------------
(***************************************************************************)
(* Model of the AssetsBridge Unreal plugin (nitecon/AssetsBridge):         *)
(*   - the import-side path normalization of UBridgeManager::GenerateImport*)
(*   - the manifest files of the bridge directory and their codec          *)
(*     (UAssetsBridgeTools::ReadBridgeExportFile / WriteBridgeExportFile)  *)
(*   - the export collector UBridgeManager::StartExport / GenerateExport   *)
(*   - the import pass UBridgeManager::GenerateImport with its morph       *)
(*     target renaming and material restore                                *)
(*   - the material diff of the exporting tool that fills the changeset    *)
(*   - the skeleton conflict resolver declared in BridgeManager.h          *)
(*   - an editor session of export and import passes in any order          *)
(*   - the actor replacement UBridgeManager::ExecuteSwap / DuplicateAndSwap*)
(*   - the destination name and package GenerateImport gives a record      *)
(*                                                                         *)
(* An FString is modelled as a sequence of one-character strings, so that  *)
(* prefix stripping, splitting and joining are computed character by       *)
(* character as the engine's FString does.                                 *)
(***************************************************************************)
EXTENDS Integers, Sequences, FiniteSets, TLC

VARIABLES
    InternalPath,     \* normalizer: the Item.InternalPath being normalized
    NormHistory,      \* normalizer: results of successive applications
    files,            \* bridge directory: manifest file name -> content
    geometry,         \* bridge directory: geometry files written by exports
    op,               \* the operation that returned last ("none" at start)
    bIsSuccessful,    \* out-parameter of the last operation
    OutMessage,       \* out-parameter of the last operation
    ret,              \* what the last operation returned / did
    assets,           \* content library: package name -> imported mesh
    resolver,         \* skeleton conflict resolver of the imported skeletal mesh
    session           \* editor session: the passes run so far and what the external
                      \* importer makes of each geometry file

vars == <<InternalPath, NormHistory, files, geometry, op, bIsSuccessful, OutMessage, ret, assets,
          resolver, session>>

normVars == <<InternalPath, NormHistory>>
bridgeVars == <<files, geometry, op, bIsSuccessful, OutMessage, ret, assets, resolver, session>>

(***************************************************************************)
(* FString helpers                                                         *)
(***************************************************************************)
UpperChars == <<"A","B","C","D","E","F","G","H","I","J","K","L","M",
                "N","O","P","Q","R","S","T","U","V","W","X","Y","Z">>
LowerChars == <<"a","b","c","d","e","f","g","h","i","j","k","l","m",
                "n","o","p","q","r","s","t","u","v","w","x","y","z">>

\* TChar::ToLower
ToLower(c) ==
    IF \E i \in DOMAIN UpperChars : UpperChars[i] = c
    THEN LowerChars[CHOOSE i \in DOMAIN UpperChars : UpperChars[i] = c]
    ELSE c

\* FString::operator== compares ignoring case
FStringEq(a, b) ==
    /\ Len(a) = Len(b)
    /\ \A i \in 1..Len(a) : ToLower(a[i]) = ToLower(b[i])

\* FString::StartsWith(Prefix), default ESearchCase::IgnoreCase
StartsWith(s, prefix) ==
    /\ Len(prefix) > 0
    /\ Len(s) >= Len(prefix)
    /\ \A i \in 1..Len(prefix) : ToLower(s[i]) = ToLower(prefix[i])

\* FString::RemoveFromStart(Prefix), default ESearchCase::IgnoreCase
RemoveFromStart(s, prefix) ==
    IF StartsWith(s, prefix) THEN SubSeq(s, Len(prefix) + 1, Len(s)) ELSE s

\* FString::ParseIntoArray(Out, TEXT("/"), /*CullEmpty*/ true)
RECURSIVE ParseFrom(_, _, _)
ParseFrom(s, i, cur) ==
    IF i > Len(s)
    THEN (IF cur = <<>> THEN <<>> ELSE <<cur>>)
    ELSE IF s[i] = "/"
         THEN (IF cur = <<>> THEN <<>> ELSE <<cur>>) \o ParseFrom(s, i + 1, <<>>)
         ELSE ParseFrom(s, i + 1, Append(cur, s[i]))

ParseIntoArray(s) == ParseFrom(s, 1, <<>>)

\* FString::Join(Segments, TEXT("/"))
RECURSIVE Join(_)
Join(segs) ==
    IF segs = <<>> THEN <<>>
    ELSE IF Len(segs) = 1 THEN segs[1]
    ELSE segs[1] \o <<"/">> \o Join(Tail(segs))

\* string literals used by the code
s_Slash   == <<"/">>
s_Game    == <<"G","a","m","e">>
s_Content == <<"C","o","n","t","e","n","t">>
s_All     == <<"A","l","l">>
s_SlashGame    == s_Slash \o s_Game
s_SlashContent == s_Slash \o s_Content
s_SlashAll     == s_Slash \o s_All

(***************************************************************************)
(* Path normalization of GenerateImport                                    *)
(***************************************************************************)
\* "Remove any /Game or /Content prefix if included"
StripContentRoot(p) ==
    RemoveFromStart(
        RemoveFromStart(
            RemoveFromStart(
                RemoveFromStart(p, s_SlashGame),
                s_Game),
            s_SlashContent),
        s_Content)

\* "Ensure leading slash"
EnsureLeadingSlash(p) ==
    IF ~StartsWith(p, s_Slash) THEN s_Slash \o p ELSE p

\* mutant of CollapseDoubled: collapses every leading repetition, not one pair
RECURSIVE CollapseDoubled_Repeated(_)
CollapseDoubled_Repeated(p) ==
    LET PathSegments == ParseIntoArray(p) IN
    IF Len(PathSegments) >= 2 /\ FStringEq(PathSegments[1], PathSegments[2])
    THEN CollapseDoubled_Repeated(s_Slash \o Join(Tail(PathSegments)))
    ELSE p

\* mutant of CollapseDoubled: rebuilds the path without the leading separator
CollapseDoubled_NoSlash(p) ==
    LET PathSegments == ParseIntoArray(p) IN
    IF Len(PathSegments) >= 2 /\ FStringEq(PathSegments[1], PathSegments[2])
    THEN Join(Tail(PathSegments))
    ELSE p

\* "Fix doubled path segments (e.g., /Assets/Assets/ -> /Assets/)"
CollapseDoubled(p) ==
    LET PathSegments == ParseIntoArray(p) IN
    IF Len(PathSegments) >= 2 /\ FStringEq(PathSegments[1], PathSegments[2])
    THEN s_Slash \o Join(Tail(PathSegments))
    ELSE p

\* mutant of NormalizePath: never adds the leading separator
NormalizePath_NoLeadingSlash(p) == CollapseDoubled(StripContentRoot(p))

\* mutant of NormalizePath: also removes a leading "/All" virtual root
NormalizePath_StripAll(p) ==
    CollapseDoubled(EnsureLeadingSlash(StripContentRoot(RemoveFromStart(p, s_SlashAll))))

\* NormalizedPath as computed from Item.InternalPath
NormalizePath(p) == CollapseDoubled(EnsureLeadingSlash(StripContentRoot(p)))

\* UPackageTools::SanitizePackageName: ReplaceInline("//", "/"), one
\* left-to-right pass over non-overlapping matches (the characters of the
\* model's alphabet are all valid package-name characters)
RECURSIVE SanitizePackageName(_)
SanitizePackageName(s) ==
    IF Len(s) < 2 THEN s
    ELSE IF s[1] = "/" /\ s[2] = "/"
         THEN s_Slash \o SanitizePackageName(SubSeq(s, 3, Len(s)))
         ELSE <<s[1]>> \o SanitizePackageName(Tail(s))

\* mutant of ImportPackageName: a destination that is taken gets a fresh name
ImportPackageName_Unique(normalized, OriginalName) ==
    IF SanitizePackageName(s_SlashGame \o normalized \o s_Slash \o OriginalName)
          \in DOMAIN assets
    THEN SanitizePackageName(s_SlashGame \o normalized \o s_Slash \o OriginalName)
            \o <<"_", "1">>
    ELSE SanitizePackageName(s_SlashGame \o normalized \o s_Slash \o OriginalName)

\* ImportPackageName of GenerateImport for a normalized path and asset name
ImportPackageName(normalized, OriginalName) ==
    SanitizePackageName(s_SlashGame \o normalized \o s_Slash \o OriginalName)

(***************************************************************************)
(* Inputs of the normalizer: every concatenation of at most MaxTokens      *)
(* tokens, every "/"-led path of at most MaxSegments segments, and the     *)
(* paths the documentation gives as examples.                              *)
(***************************************************************************)
MaxTokens == 5
MaxSegments == 3
MaxPasses == 2

s_A == <<"A">>
s_a == <<"a">>
s_Hero == <<"H","e","r","o">>
s_Assets == <<"A","s","s","e","t","s">>
s_Foo == <<"F","o","o">>
s_Bar == <<"B","a","r">>

PathTokens == {s_Slash, s_Game, s_Content, s_All, s_A, s_a}
PathSegmentNames == {s_Game, s_Content, s_All, s_A, s_a}

RECURSIVE Flatten(_)
Flatten(parts) ==
    IF parts = <<>> THEN <<>> ELSE Head(parts) \o Flatten(Tail(parts))

RECURSIVE SlashLed(_)
SlashLed(segs) ==
    IF segs = <<>> THEN <<>> ELSE s_Slash \o Head(segs) \o SlashLed(Tail(segs))

ex_AssetsAssetsHero == SlashLed(<<s_Assets, s_Assets, s_Hero>>)
ex_AssetsHero == SlashLed(<<s_Assets, s_Hero>>)
ex_FooBarFoo == SlashLed(<<s_Foo, s_Bar, s_Foo>>)

\* folders whose names begin with the name of a content root
ex_GameAssetsHero == s_Slash \o s_Game \o s_Assets \o s_Slash \o s_Hero
ex_ContentPacksHero == s_Slash \o s_Content \o <<"P","a","c","k","s">> \o s_Slash \o s_Hero

ExamplePaths == {ex_AssetsAssetsHero, ex_FooBarFoo, ex_GameAssetsHero, ex_ContentPacksHero}

TokenStrings ==
    UNION { { Flatten(f) : f \in [1..n -> PathTokens] } : n \in 0..MaxTokens }

SegmentPaths ==
    UNION { { SlashLed(f) : f \in [1..n -> PathSegmentNames] } : n \in 1..MaxSegments }

PathInputs == TokenStrings \cup SegmentPaths \cup ExamplePaths

(***************************************************************************)
(* The exchanged structs: FBridgeExport, FExportAsset, FMaterialSlot,      *)
(* FWorldData, with the fields the sources read and write.  A string that  *)
(* the code takes apart (paths, names, the kind tag) is a character        *)
(* sequence; a string it only carries is a TLA+ string.                    *)
(***************************************************************************)
NullPtr == "nullptr"
ZeroVector == <<0, 0, 0>>
DefaultWorldData == [Location |-> ZeroVector, Rotation |-> ZeroVector, Scale |-> ZeroVector]
EmptyChangeset == [Added |-> <<>>, Removed |-> <<>>, Unchanged |-> <<>>]

DefaultMaterialSlot == [Idx |-> 0, Name |-> "", InternalPath |-> <<>>, OriginalIdx |-> 0]

DefaultExportAsset ==
    [ModelPtr |-> NullPtr, Model |-> <<>>, ObjectID |-> "", InternalPath |-> <<>>,
     RelativeExportPath |-> <<>>, ShortName |-> <<>>, ExportLocation |-> <<>>,
     StringType |-> <<>>, WorldData |-> DefaultWorldData, ObjectMaterials |-> <<>>,
     MaterialChangeset |-> EmptyChangeset, Skeleton |-> <<>>, MorphTargets |-> <<>>]

DefaultBridgeExport == [Operation |-> "", Objects |-> <<>>]

\* the fields of a record that the manifest text carries (ModelPtr is the
\* in-memory handle of the loaded asset)
SerializedFields ==
    {"Model", "ObjectID", "InternalPath", "RelativeExportPath", "ShortName",
     "ExportLocation", "StringType", "WorldData", "ObjectMaterials",
     "MaterialChangeset", "Skeleton", "MorphTargets"}

Persisted(rec) == [f \in SerializedFields |-> rec[f]]
PersistedManifest(m) ==
    [Operation |-> m.Operation,
     Objects |-> [i \in 1..Len(m.Objects) |-> Persisted(m.Objects[i])]]

(***************************************************************************)
(* JSON values and the struct <-> JSON conversion of FJsonObjectConverter  *)
(***************************************************************************)
JStr(s) == [j |-> "string", s |-> s]
JNum(n) == [j |-> "number", n |-> n]
JArr(a) == [j |-> "array", a |-> a]
JObj(f) == [j |-> "object", f |-> f]
JMissing == [j |-> "missing"]

\* FJsonObjectConverter::StandardizeCase: first letter lowered, "ID" -> "Id"
StandardizeCase ==
    [Operation |-> "operation", Objects |-> "objects", Model |-> "model",
     ObjectID |-> "objectId", InternalPath |-> "internalPath",
     RelativeExportPath |-> "relativeExportPath", ShortName |-> "shortName",
     ExportLocation |-> "exportLocation", StringType |-> "stringType",
     WorldData |-> "worldData", ObjectMaterials |-> "objectMaterials",
     MaterialChangeset |-> "materialChangeset", Skeleton |-> "skeleton",
     MorphTargets |-> "morphTargets", Idx |-> "idx", Name |-> "name",
     OriginalIdx |-> "originalIdx", Added |-> "added", Removed |-> "removed",
     Unchanged |-> "unchanged", Location |-> "location", Rotation |-> "rotation",
     Scale |-> "scale", X |-> "x", Y |-> "y", Z |-> "z"]

\* mutant of KeyMatches: the attribute is found only under the authored name
KeyMatches_CaseSensitive(key, prop) == key = prop

\* a JSON attribute is matched to a property ignoring case: the spellings
\* that occur are the authored name and the standardized one
KeyMatches(key, prop) == key = prop \/ key = StandardizeCase[prop]

Attribute(obj, prop) ==
    IF \E k \in DOMAIN obj.f : KeyMatches(k, prop)
    THEN obj.f[CHOOSE k \in DOMAIN obj.f : KeyMatches(k, prop)]
    ELSE JMissing

ToJsonVector(v) ==
    JObj((StandardizeCase["X"] :> JNum(v[1])) @@ (StandardizeCase["Y"] :> JNum(v[2]))
         @@ (StandardizeCase["Z"] :> JNum(v[3])))

ToJsonWorldData(w) ==
    JObj((StandardizeCase["Location"] :> ToJsonVector(w.Location))
         @@ (StandardizeCase["Rotation"] :> ToJsonVector(w.Rotation))
         @@ (StandardizeCase["Scale"] :> ToJsonVector(w.Scale)))

ToJsonSlot(s) ==
    JObj((StandardizeCase["Idx"] :> JNum(s.Idx))
         @@ (StandardizeCase["Name"] :> JStr(s.Name))
         @@ (StandardizeCase["InternalPath"] :> JStr(s.InternalPath))
         @@ (StandardizeCase["OriginalIdx"] :> JNum(s.OriginalIdx)))

ToJsonSlots(slots) == JArr([i \in 1..Len(slots) |-> ToJsonSlot(slots[i])])

ToJsonChangeset(c) ==
    JObj((StandardizeCase["Added"] :> ToJsonSlots(c.Added))
         @@ (StandardizeCase["Removed"] :> ToJsonSlots(c.Removed))
         @@ (StandardizeCase["Unchanged"] :> ToJsonSlots(c.Unchanged)))

ToJsonStrings(strs) == JArr([i \in 1..Len(strs) |-> JStr(strs[i])])

ToJsonExportAsset(r) ==
    JObj((StandardizeCase["Model"] :> JStr(r.Model))
         @@ (StandardizeCase["ObjectID"] :> JStr(r.ObjectID))
         @@ (StandardizeCase["InternalPath"] :> JStr(r.InternalPath))
         @@ (StandardizeCase["RelativeExportPath"] :> JStr(r.RelativeExportPath))
         @@ (StandardizeCase["ShortName"] :> JStr(r.ShortName))
         @@ (StandardizeCase["ExportLocation"] :> JStr(r.ExportLocation))
         @@ (StandardizeCase["StringType"] :> JStr(r.StringType))
         @@ (StandardizeCase["WorldData"] :> ToJsonWorldData(r.WorldData))
         @@ (StandardizeCase["ObjectMaterials"] :> ToJsonSlots(r.ObjectMaterials))
         @@ (StandardizeCase["MaterialChangeset"] :> ToJsonChangeset(r.MaterialChangeset))
         @@ (StandardizeCase["Skeleton"] :> JStr(r.Skeleton))
         @@ (StandardizeCase["MorphTargets"] :> ToJsonStrings(r.MorphTargets)))

\* mutant of UStructToJsonObject: the records are written in reverse order
UStructToJsonObject_Reversed(Data) ==
    JObj((StandardizeCase["Operation"] :> JStr(Data.Operation))
         @@ (StandardizeCase["Objects"] :>
                JArr([i \in 1..Len(Data.Objects) |->
                        ToJsonExportAsset(Data.Objects[Len(Data.Objects) + 1 - i])])))

\* FJsonObjectConverter::UStructToJsonObject(Data) for an FBridgeExport
UStructToJsonObject(Data) ==
    JObj((StandardizeCase["Operation"] :> JStr(Data.Operation))
         @@ (StandardizeCase["Objects"] :>
                JArr([i \in 1..Len(Data.Objects) |-> ToJsonExportAsset(Data.Objects[i])])))

\* JSON -> property.  A missing attribute leaves the struct's default.
\* Scalars are converted leniently (FJsonValue::AsString / AsNumber): a
\* number read as a string is printed, a container read as a scalar gives
\* the empty value; a string in a numeric position goes through Atoi, which
\* gives 0 for the non-numeric strings of this model.  An array property
\* needs a JSON array and a struct property a JSON object: anything else
\* makes the conversion fail (the ...Ok operators).
StringValue(jv, default) ==
    IF jv.j = "string" THEN jv.s
    ELSE IF jv.j = "number" THEN ToString(jv.n)
    ELSE default

NumberValue(jv, default) ==
    IF jv.j = "missing" THEN default
    ELSE IF jv.j = "number" THEN jv.n
    ELSE 0

VectorOk(jv) == jv.j \in {"missing", "object"}
VectorValue(jv) ==
    IF jv.j # "object" THEN ZeroVector
    ELSE <<NumberValue(Attribute(jv, "X"), 0), NumberValue(Attribute(jv, "Y"), 0),
           NumberValue(Attribute(jv, "Z"), 0)>>

WorldDataOk(jv) ==
    \/ jv.j = "missing"
    \/ /\ jv.j = "object"
       /\ \A p \in {"Location", "Rotation", "Scale"} : VectorOk(Attribute(jv, p))
WorldDataValue(jv) ==
    IF jv.j # "object" THEN DefaultWorldData
    ELSE [p \in {"Location", "Rotation", "Scale"} |-> VectorValue(Attribute(jv, p))]

SlotOk(jv) == jv.j = "object"
SlotValue(jv) ==
    IF jv.j # "object" THEN DefaultMaterialSlot
    ELSE [Idx |-> NumberValue(Attribute(jv, "Idx"), DefaultMaterialSlot.Idx),
          Name |-> StringValue(Attribute(jv, "Name"), DefaultMaterialSlot.Name),
          InternalPath |-> StringValue(Attribute(jv, "InternalPath"),
                                       DefaultMaterialSlot.InternalPath),
          OriginalIdx |-> NumberValue(Attribute(jv, "OriginalIdx"),
                                      DefaultMaterialSlot.OriginalIdx)]

SlotsOk(jv) ==
    \/ jv.j = "missing"
    \/ jv.j = "array" /\ \A i \in 1..Len(jv.a) : SlotOk(jv.a[i])
SlotsValue(jv) ==
    IF jv.j # "array" THEN <<>> ELSE [i \in 1..Len(jv.a) |-> SlotValue(jv.a[i])]

ChangesetOk(jv) ==
    \/ jv.j = "missing"
    \/ /\ jv.j = "object"
       /\ \A p \in {"Added", "Removed", "Unchanged"} : SlotsOk(Attribute(jv, p))
ChangesetValue(jv) ==
    IF jv.j # "object" THEN EmptyChangeset
    ELSE [p \in {"Added", "Removed", "Unchanged"} |-> SlotsValue(Attribute(jv, p))]

StringsOk(jv) == jv.j \in {"missing", "array"}
StringsValue(jv) ==
    IF jv.j # "array" THEN <<>> ELSE [i \in 1..Len(jv.a) |-> StringValue(jv.a[i], <<>>)]

\* the kind tags GetExportInfo writes
s_StaticMesh == <<"S","t","a","t","i","c","M","e","s","h">>
s_SkeletalMesh == <<"S","k","e","l","e","t","a","l","M","e","s","h">>
s_Unknown == <<"U","n","k","n","o","w","n">>

\* the tag of a record is one of the known tags
KnownKind(StringType) == StringType \in {s_StaticMesh, s_SkeletalMesh, s_Unknown}

\* mutant of ExportAssetOk: a record with a tag that is not known is rejected
ExportAssetOk_KnownKinds(jv) ==
    /\ jv.j = "object"
    /\ KnownKind(StringValue(Attribute(jv, "StringType"), <<>>))

ExportAssetOk(jv) ==
    /\ jv.j = "object"
    /\ WorldDataOk(Attribute(jv, "WorldData"))
    /\ SlotsOk(Attribute(jv, "ObjectMaterials"))
    /\ ChangesetOk(Attribute(jv, "MaterialChangeset"))
    /\ StringsOk(Attribute(jv, "MorphTargets"))
ExportAssetValue(jv) ==
    IF jv.j # "object" THEN DefaultExportAsset
    ELSE [ModelPtr |-> NullPtr,
          Model |-> StringValue(Attribute(jv, "Model"), DefaultExportAsset.Model),
          ObjectID |-> StringValue(Attribute(jv, "ObjectID"), DefaultExportAsset.ObjectID),
          InternalPath |-> StringValue(Attribute(jv, "InternalPath"),
                                       DefaultExportAsset.InternalPath),
          RelativeExportPath |-> StringValue(Attribute(jv, "RelativeExportPath"),
                                             DefaultExportAsset.RelativeExportPath),
          ShortName |-> StringValue(Attribute(jv, "ShortName"), DefaultExportAsset.ShortName),
          ExportLocation |-> StringValue(Attribute(jv, "ExportLocation"),
                                         DefaultExportAsset.ExportLocation),
          StringType |-> StringValue(Attribute(jv, "StringType"),
                                     DefaultExportAsset.StringType),
          WorldData |-> WorldDataValue(Attribute(jv, "WorldData")),
          ObjectMaterials |-> SlotsValue(Attribute(jv, "ObjectMaterials")),
          MaterialChangeset |-> ChangesetValue(Attribute(jv, "MaterialChangeset")),
          Skeleton |-> StringValue(Attribute(jv, "Skeleton"), DefaultExportAsset.Skeleton),
          MorphTargets |-> StringsValue(Attribute(jv, "MorphTargets"))]

ObjectsOk(jv) ==
    \/ jv.j = "missing"
    \/ jv.j = "array" /\ \A i \in 1..Len(jv.a) : ExportAssetOk(jv.a[i])
ObjectsValue(jv) ==
    IF jv.j # "array" THEN <<>> ELSE [i \in 1..Len(jv.a) |-> ExportAssetValue(jv.a[i])]

\* FJsonObjectConverter::JsonObjectToUStruct<FBridgeExport>(JSONObject, &ReturnData)
JsonObjectToUStruct(JSONObject) ==
    [ok |-> ObjectsOk(Attribute(JSONObject, "Objects")),
     v |-> [Operation |-> StringValue(Attribute(JSONObject, "Operation"),
                                      DefaultBridgeExport.Operation),
            Objects |-> ObjectsValue(Attribute(JSONObject, "Objects"))]]

(***************************************************************************)
(* The bridge directory and the out-parameters before any operation ran    *)
(***************************************************************************)
PrimaryFile == "from-blender.json"
LegacyFile  == "AssetBridge.json"
ExportFile  == "from-unreal.json"
FileNames == {PrimaryFile, LegacyFile, ExportFile}

\* content of a file: absent, text that is not a JSON document, or a JSON
\* document
NoFile == [t |-> "absent"]
Garbage == [t |-> "garbage", raw |-> "{"]
JsonFile(v) == [t |-> "json", v |-> v]

\* FString::Printf(msg, ...): the format with the values it is given
Message(msg, path, data, n) == [msg |-> msg, path |-> path, data |-> data, n |-> n]
NoMessage == Message("", "", NoFile, 0)

\* what an operation hands back: the manifest it returned, the file it
\* chose, the selections StartExport found and the records it collected,
\* the imports GenerateImport did, the out-parameters the call assigned and
\* the selected actors of the level after a swap
BothAssigned == {"bIsSuccessful", "OutMessage"}
NoReturn ==
    [data |-> DefaultBridgeExport, path |-> "", Selection |-> <<>>,
     SelectedAssets |-> <<>>, collected |-> <<>>, imported |-> <<>>, crashed |-> FALSE,
     fatal |-> "", unwritable |-> {}, failing |-> {}, saveOk |-> TRUE,
     assigned |-> {}, level |-> <<>>]

\* FSkeletonImportResult as default-constructed
DefaultSkeletonImportResult ==
    [bNewSkeletonGenerated |-> FALSE, bNewPhysicsAssetGenerated |-> FALSE,
     IntendedSkeletonPath |-> <<>>, GeneratedSkeletonPath |-> <<>>,
     GeneratedPhysicsAssetPath |-> <<>>, ImportedMesh |-> NullPtr]

\* no skeletal mesh has been imported: the resolver has nothing to work on
NoMesh ==
    [ptr |-> NullPtr, path |-> <<>>, Skeleton |-> NullPtr, PhysicsAsset |-> NullPtr,
     RefSkeleton |-> {}]

NoResolver ==
    [state |-> "none", trace |-> <<>>, mesh |-> NoMesh, AtImport |-> NoMesh,
     InSkeletonPath |-> <<>>, result |-> DefaultSkeletonImportResult,
     prompted |-> FALSE, bDeleteGeneratedAssets |-> FALSE, deleted |-> {},
     errors |-> {}]

\* no pass has run in this session
NoSession == [passes |-> <<>>, importer |-> <<>>]

BridgeInit ==
    /\ files = [f \in FileNames |-> NoFile]
    /\ geometry = {}
    /\ op = "none"
    /\ bIsSuccessful = FALSE
    /\ OutMessage = NoMessage
    /\ ret = NoReturn
    /\ assets = <<>>
    /\ resolver = NoResolver
    /\ session = NoSession

NormIdle ==
    /\ InternalPath = <<>>
    /\ NormHistory = <<>>

(***************************************************************************)
(* Specification of the normalizer alone: an internal path is drawn, and   *)
(* the normalization of GenerateImport is applied to it, then to its own   *)
(* output.                                                                 *)
(***************************************************************************)
NormInit ==
    /\ InternalPath \in PathInputs
    /\ NormHistory = <<>>
    /\ BridgeInit

Normalize ==
    /\ Len(NormHistory) < MaxPasses
    /\ NormHistory' = Append(NormHistory,
                             NormalizePath(IF NormHistory = <<>>
                                           THEN InternalPath
                                           ELSE NormHistory[Len(NormHistory)]))
    /\ UNCHANGED <<InternalPath, bridgeVars>>

NormNext == Normalize

SpecNorm == NormInit /\ [][NormNext]_vars

(***************************************************************************)
(* Measuring tools for the claims about normalization                      *)
(***************************************************************************)
LeadingDoubled(p) ==
    LET segs == ParseIntoArray(p) IN
    Len(segs) >= 2 /\ FStringEq(segs[1], segs[2])

HasContentRootPrefix(p) ==
    \/ StartsWith(p, s_SlashGame)
    \/ StartsWith(p, s_Game)
    \/ StartsWith(p, s_SlashContent)
    \/ StartsWith(p, s_Content)

HasDoubleSlash(p) ==
    \E i \in 1..(Len(p) - 1) : p[i] = "/" /\ p[i + 1] = "/"

Normalized == NormHistory[1]

\* C1 (as claimed): normalize(normalize(p)) = normalize(p) for every p.
C1_Idempotent ==
    Len(NormHistory) >= 2 => NormHistory[2] = NormHistory[1]

\* C1 (amended): a further application of the normalization leaves a
\* normalized path unchanged exactly when that path no longer begins with a
\* content-root prefix ("/Game", "/Content", in any letter case) and its
\* first two segments differ; otherwise the next application strips or
\* collapses once more ("/A/A/A" -> "/A/A" -> "/A").
C1_IdempotentOnceSettled ==
    \A i \in 1..(Len(NormHistory) - 1) :
        (NormHistory[i + 1] = NormHistory[i])
            <=> (~HasContentRootPrefix(NormHistory[i]) /\ ~LeadingDoubled(NormHistory[i]))

C1_Witness ==
    /\ Len(NormHistory) >= 2
    /\ NormHistory[1] # InternalPath
    /\ NormHistory[2] = NormHistory[1]

HasAllSegment(p) ==
    \E i \in DOMAIN ParseIntoArray(p) : FStringEq(ParseIntoArray(p)[i], s_All)

ReadStringFromFile(FilePath, loadOk) ==
    IF files[FilePath] = NoFile
    THEN [ok |-> FALSE, text |-> NoFile,
          msg |-> Message("failed to open file for reading: '%s'", FilePath, NoFile, 0)]
    ELSE IF ~loadOk
    THEN [ok |-> FALSE, text |-> NoFile,
          msg |-> Message("unable to read file: '%s'", FilePath, NoFile, 0)]
    ELSE [ok |-> TRUE, text |-> files[FilePath], msg |-> Message("success", "", NoFile, 0)]

\* FJsonSerializer::Deserialize into an FJsonObject fails on text that is
\* not JSON and on a document whose root is not an object
ReadJson(FilePath, loadOk) ==
    LET StringData == ReadStringFromFile(FilePath, loadOk)
    IN IF ~StringData.ok
       THEN [ok |-> FALSE, json |-> JMissing, msg |-> StringData.msg]
       ELSE IF StringData.text.t # "json" \/ StringData.text.v.j # "object"
       THEN [ok |-> FALSE, json |-> JMissing,
             msg |-> Message("failed to read json object: %s", "", StringData.text, 0)]
       ELSE [ok |-> TRUE, json |-> StringData.text.v,
             msg |-> Message("json read success from %s", FilePath, NoFile, 0)]

\* mutant of JsonFilePath: the legacy file is preferred whenever it exists
JsonFilePath_LegacyFirst == IF files[LegacyFile] # NoFile THEN LegacyFile ELSE PrimaryFile

\* the file ReadBridgeExportFile reads
JsonFilePath ==
    IF files[PrimaryFile] = NoFile /\ files[LegacyFile] # NoFile
    THEN LegacyFile ELSE PrimaryFile

ReadBridgeExportFile(loadOk) ==
    LET JSONObject == ReadJson(JsonFilePath, loadOk)
        ReturnData == JsonObjectToUStruct(JSONObject.json)
    IN IF ~JSONObject.ok
       THEN [ok |-> FALSE, data |-> DefaultBridgeExport, path |-> JsonFilePath,
             msg |-> JSONObject.msg]
       ELSE IF ~ReturnData.ok
       THEN [ok |-> FALSE, data |-> DefaultBridgeExport, path |-> JsonFilePath,
             msg |-> Message("Invalid json detected for this operation on file: %s",
                             JsonFilePath, NoFile, 0)]
       ELSE [ok |-> TRUE, data |-> ReturnData.v, path |-> JsonFilePath,
             msg |-> Message("Read %d objects from %s", JsonFilePath, NoFile,
                             Len(ReturnData.v.Objects))]

WriteStringToFile(FilePath, Data, saveOk) ==
    IF ~saveOk
    THEN [ok |-> FALSE, files |-> files,
          msg |-> Message("failed to write file: '%s'", FilePath, NoFile, 0)]
    ELSE [ok |-> TRUE, files |-> [files EXCEPT ![FilePath] = Data],
          msg |-> Message("wrote file: %s", FilePath, NoFile, 0)]

WriteJson(FilePath, JsonObject, saveOk) ==
    LET w == WriteStringToFile(FilePath, JsonFile(JsonObject), saveOk)
    IN IF ~w.ok THEN w
       ELSE [w EXCEPT !.msg = Message("wrote json to file: %s", FilePath, NoFile, 0)]

\* mutant of WriteBridgeExportFile: the export is written to the file the
\* import reads
WriteBridgeExportFile_ToImportFile(Data, saveOk) ==
    LET w == WriteJson(PrimaryFile, UStructToJsonObject(Data), saveOk)
    IN IF ~w.ok THEN w
       ELSE [w EXCEPT !.msg = Message("Exported %d objects to %s", PrimaryFile, NoFile,
                                      Len(Data.Objects))]

WriteBridgeExportFile(Data, saveOk) ==
    LET w == WriteJson(ExportFile, UStructToJsonObject(Data), saveOk)
    IN IF ~w.ok THEN w
       ELSE [w EXCEPT !.msg = Message("Exported %d objects to %s", ExportFile, NoFile,
                                      Len(Data.Objects))]

(***************************************************************************)
(* Manifests of the model: records as the other application writes them    *)
(***************************************************************************)
MaxObjects == 2

s_Dot == <<".">>
s_Camera == <<"C","a","m","e","r","a">>
s_Root == <<"R">>
s_glb == <<".","g","l","b">>
s_M == <<"M">>
s_Sk == <<"S","k">>
s_Cam == <<"C","a","m">>
s_Smile == <<"S","m","i","l","e">>
s_Blink == <<"B","l","i","n","k">>

\* "/Game/<folder>/<name>.<name>"
ObjectPath(folder, name) == SlashLed(<<s_Game, folder, name>>) \o s_Dot \o name

slot_Skin == [Idx |-> 0, Name |-> "Skin", InternalPath |-> SlashLed(<<s_A, s_M>>), OriginalIdx |-> 0]
slot_Eyes == [Idx |-> 1, Name |-> "Eyes", InternalPath |-> SlashLed(<<s_Game, s_A, s_M>>), OriginalIdx |-> 1]
slot_Hair == [Idx |-> 2, Name |-> "Hair", InternalPath |-> <<>>, OriginalIdx |-> 2]

rec_Hero ==
    [DefaultExportAsset EXCEPT
        !.Model = ObjectPath(s_A, s_Hero), !.ObjectID = "Hero_1",
        !.InternalPath = SlashLed(<<s_A>>), !.RelativeExportPath = SlashLed(<<s_A>>),
        !.ShortName = s_Hero,
        !.ExportLocation = s_Root \o SlashLed(<<s_A, s_Hero>>) \o s_glb,
        !.StringType = s_StaticMesh,
        !.WorldData = [Location |-> <<10, 20, 30>>, Rotation |-> <<0, 90, 0>>,
                       Scale |-> <<1, 1, 1>>],
        !.ObjectMaterials = <<slot_Skin>>,
        !.MaterialChangeset = [Added |-> <<>>, Removed |-> <<>>, Unchanged |-> <<slot_Skin>>]]

rec_Bar ==
    [DefaultExportAsset EXCEPT
        !.Model = ObjectPath(s_A, s_Bar),
        !.InternalPath = SlashLed(<<s_Game, s_A>>), !.RelativeExportPath = SlashLed(<<s_A>>),
        !.ShortName = s_Bar,
        !.ExportLocation = s_Root \o SlashLed(<<s_A, s_Bar>>) \o s_glb,
        !.StringType = s_SkeletalMesh,
        !.ObjectMaterials = <<slot_Skin, slot_Eyes>>,
        !.MaterialChangeset = [Added |-> <<slot_Hair>>, Removed |-> <<slot_Eyes>>,
                               Unchanged |-> <<slot_Skin>>],
        !.Skeleton = ObjectPath(s_A, s_Sk),
        !.MorphTargets = <<s_Smile, s_Blink>>]

rec_Cam ==
    [DefaultExportAsset EXCEPT
        !.Model = ObjectPath(s_A, s_Cam), !.ObjectID = "Cam_1",
        !.InternalPath = SlashLed(<<s_A>>), !.ShortName = s_Cam,
        !.ExportLocation = s_Root \o SlashLed(<<s_A, s_Cam>>) \o s_glb,
        !.StringType = s_Camera]

ManifestRecords == <<rec_Hero, rec_Bar, rec_Cam>>

\* the manifests of up to MaxObjects records: runs of consecutive records
\* of ManifestRecords (cyclically), from every starting record
RecordRun(start, n) ==
    [i \in 1..n |-> ManifestRecords[((start + i - 2) % Len(ManifestRecords)) + 1]]

Manifests ==
    {[Operation |-> o, Objects |-> RecordRun(start, n)] :
        o \in {"BlenderExport"}, start \in 1..Len(ManifestRecords), n \in 0..MaxObjects}

\* documents that are not the codec's own output
doc_WrongShape ==
    JObj(("operation" :> JStr("BlenderExport")) @@ ("objects" :> JStr("none")))
doc_NoObjects == JObj("operation" :> JStr("BlenderExport"))
doc_RootArray == JArr(<<>>)
doc_Authored ==
    JObj(("Operation" :> JStr("BlenderExport"))
         @@ ("Objects" :> JArr(<<JObj(("ShortName" :> JStr(s_Cam))
                                      @@ ("StringType" :> JStr(s_Camera))
                                      @@ ("InternalPath" :> JStr(SlashLed(<<s_A>>))))>>)))

ForeignContents ==
    {Garbage, JsonFile(doc_WrongShape), JsonFile(doc_NoObjects), JsonFile(doc_RootArray),
     JsonFile(doc_Authored)}

(***************************************************************************)
(* Specification of the manifest files: the plugin writes from-unreal.json *)
(* and reads from-blender.json / AssetBridge.json; the other application   *)
(* writes documents of its own or hands back the document it was given.    *)
(***************************************************************************)
DoWriteBridgeExportFile ==
    \E Data \in Manifests, saveOk \in BOOLEAN :
        LET w == WriteBridgeExportFile(Data, saveOk)
        IN /\ files' = w.files
           /\ op' = "WriteBridgeExportFile"
           /\ bIsSuccessful' = w.ok
           /\ OutMessage' = w.msg
           /\ ret' = [NoReturn EXCEPT !.data = Data]
           /\ UNCHANGED <<normVars, geometry, assets, resolver, session>>

DoReadBridgeExportFile ==
    \E loadOk \in BOOLEAN :
        LET r == ReadBridgeExportFile(loadOk)
        IN /\ op' = "ReadBridgeExportFile"
           /\ bIsSuccessful' = r.ok
           /\ OutMessage' = r.msg
           /\ ret' = [NoReturn EXCEPT !.data = r.data, !.path = r.path]
           /\ UNCHANGED <<normVars, files, geometry, assets, resolver, session>>

\* the other application answers with the document it was given
EchoBack ==
    \E f \in {PrimaryFile, LegacyFile} :
        /\ files[ExportFile] # NoFile
        /\ files' = [files EXCEPT ![f] = files[ExportFile]]
        /\ op' = "none" /\ bIsSuccessful' = FALSE /\ OutMessage' = NoMessage
        /\ ret' = NoReturn
        /\ UNCHANGED <<normVars, geometry, assets, resolver, session>>

\* the other application writes a document of its own, or removes a file
BlenderWrites ==
    \E f \in {PrimaryFile, LegacyFile}, c \in ForeignContents \cup {NoFile} :
        /\ files' = [files EXCEPT ![f] = c]
        /\ op' = "none" /\ bIsSuccessful' = FALSE /\ OutMessage' = NoMessage
        /\ ret' = NoReturn
        /\ UNCHANGED <<normVars, geometry, assets, resolver, session>>

CodecInit == NormIdle /\ BridgeInit

CodecNext ==
    \/ DoWriteBridgeExportFile
    \/ DoReadBridgeExportFile
    \/ EchoBack
    \/ BlenderWrites

SpecCodec == CodecInit /\ [][CodecNext]_vars

(***************************************************************************)
(* Claims about the manifest codec and the discovery order                 *)
(***************************************************************************)
\* the last operation was a read whose file system calls succeeded
ReadLoaded ==
    /\ op = "ReadBridgeExportFile"
    /\ OutMessage.msg \notin {"failed to open file for reading: '%s'",
                              "unable to read file: '%s'"}

C6_DiscoveryOrder ==
    op = "ReadBridgeExportFile" =>
        /\ files[PrimaryFile] # NoFile => ret.path = PrimaryFile
        /\ (files[PrimaryFile] = NoFile /\ files[LegacyFile] # NoFile)
              => ret.path = LegacyFile
        /\ (files[PrimaryFile] = NoFile /\ files[LegacyFile] = NoFile)
              => ~bIsSuccessful /\ ret.data = DefaultBridgeExport
        /\ bIsSuccessful =>
              /\ files[ret.path] # NoFile
              /\ files[ret.path].t = "json"
              /\ ret.data = JsonObjectToUStruct(files[ret.path].v).v
        /\ ~bIsSuccessful => ret.data = DefaultBridgeExport

\* both files exist with different manifests and the primary one was read
C6_Witness ==
    /\ op = "ReadBridgeExportFile" /\ bIsSuccessful
    /\ files[PrimaryFile] # NoFile /\ files[LegacyFile] # NoFile
    /\ files[PrimaryFile].t = "json" /\ files[LegacyFile].t = "json"
    /\ files[PrimaryFile] # files[LegacyFile]
    /\ Len(ret.data.Objects) = 1
    /\ files[LegacyFile].v.j = "object"
    /\ JsonObjectToUStruct(files[LegacyFile].v).ok
    /\ Len(JsonObjectToUStruct(files[LegacyFile].v).v.Objects) = 2

(***************************************************************************)
(* UBridgeManager::GenerateImport                                          *)
(***************************************************************************)
s_SlashEngine == <<"/","E","n","g","i","n","e">>
s_m0 == <<"m","0">>
s_m1 == <<"m","1">>
s_M0 == <<"M","0">>
s_Jaw == <<"J","a","w">>
s_Mat == <<"M","a","t">>
s_WorldGridMaterial ==
    s_SlashEngine \o <<"/","W","o","r","l","d","G","r","i","d","M","a","t","e","r","i","a","l">>

\* the materials that exist in the content library (what LoadObject finds)
MaterialLibrary == {SlashLed(<<s_Game, s_A, s_M>>)}

\* what the external importer makes of a geometry file: the class of the
\* object it leaves at the destination, the number of material slots, the
\* material it leaves in them (one it created from the file, or the engine's
\* default) and the names of the morph targets
NoGlb == [class |-> "none", slots |-> 0, fill |-> <<>>, morphs |-> <<>>]
GlbMeshes ==
    {[class |-> "StaticMesh", slots |-> 1, fill |-> SlashLed(<<s_Game, s_A, s_Mat>>),
      morphs |-> <<>>],
     [class |-> "SkeletalMesh", slots |-> 2, fill |-> s_WorldGridMaterial,
      morphs |-> <<s_m0, s_m1>>],
     [class |-> "StaticMesh", slots |-> 3, fill |-> SlashLed(<<s_Game, s_A, s_Mat>>),
      morphs |-> <<>>],
     [class |-> "Other", slots |-> 0, fill |-> <<>>, morphs |-> <<>>]}

\* the outcome of ImportAsset for one record: a failure of ProcessTask with
\* its message, or the imported mesh
ImportOutcomes ==
    {[error |-> e, glb |-> NoGlb] :
        e \in {"Could not process task",
               "Import partially successful but returned invalid object"}}
    \cup {[error |-> "", glb |-> g] : g \in GlbMeshes}

\* mutant of OriginalName: the name is always the record's ShortName
OriginalName_ShortName(Item) == Item.ShortName

\* the asset name between the last "/" of Model and the first "." after it
OriginalName(Item) ==
    LET slashes == {i \in 1..Len(Item.Model) : Item.Model[i] = "/"}
        LastSlash == CHOOSE i \in slashes : \A k \in slashes : k <= i
        dots == {i \in 1..Len(Item.Model) : i >= LastSlash /\ Item.Model[i] = "."}
        FirstDot == CHOOSE i \in dots : \A k \in dots : i <= k
    IN IF Item.Model = <<>> \/ slashes = {} \/ dots = {}
       THEN Item.ShortName
       ELSE SubSeq(Item.Model, LastSlash + 1, FirstDot - 1)

\* CreateImportTask: const bool bIsSkeletalMesh
bIsSkeletalMesh(InMeshType) == FStringEq(InMeshType, s_SkeletalMesh)

\* the mesh as the importer leaves it in the library
ImportedMesh(glb) ==
    [class |-> glb.class, materials |-> [k \in 1..glb.slots |-> glb.fill],
     morphs |-> glb.morphs]

\* FMath::Min(Item.MorphTargets.Num(), MorphTargets.Num())
NumToRename(Names, morphs) ==
    IF Len(Names) < Len(morphs) THEN Len(Names) ELSE Len(morphs)

\* MorphTarget->Rename(NewName, SkeletalMesh): the mesh already holds another
\* morph target of that name (UObject::Rename refuses to rename an object
\* on top of an existing object of the same outer, with a fatal error)
RenameCollides(Names, morphs, k) ==
    /\ ~FStringEq(morphs[k], Names[k])
    /\ \E j \in 1..Len(morphs) : j # k /\ FStringEq(morphs[j], Names[k])

\* one iteration of "Rename morph targets to their original names"
RenameOne(Names, morphs, k) ==
    IF ~FStringEq(morphs[k], Names[k]) THEN [morphs EXCEPT ![k] = Names[k]] ELSE morphs

\* the renaming loop from morph target k on, up to the first collision
RECURSIVE RenamedFrom(_, _, _)
RenamedFrom(Names, morphs, k) ==
    IF k > NumToRename(Names, morphs) \/ RenameCollides(Names, morphs, k) THEN morphs
    ELSE RenamedFrom(Names, RenameOne(Names, morphs, k), k + 1)

RECURSIVE RenameFatal(_, _, _)
RenameFatal(Names, morphs, k) ==
    IF k > NumToRename(Names, morphs) THEN FALSE
    ELSE IF RenameCollides(Names, morphs, k) THEN TRUE
    ELSE RenameFatal(Names, RenameOne(Names, morphs, k), k + 1)

\* the condition of "Restore morph target names for skeletal meshes"
RestoresMorphNames(Item, class) ==
    /\ FStringEq(Item.StringType, s_SkeletalMesh)
    /\ Len(Item.MorphTargets) > 0
    /\ class = "SkeletalMesh"

\* "Restore morph target names for skeletal meshes"
RenameMorphTargets(Item, mesh) ==
    IF RestoresMorphNames(Item, mesh.class)
    THEN [mesh EXCEPT !.morphs = RenamedFrom(Item.MorphTargets, mesh.morphs, 1)]
    ELSE mesh

MorphRenameCrashes(Item, glb) ==
    /\ RestoresMorphNames(Item, glb.class)
    /\ RenameFatal(Item.MorphTargets, glb.morphs, 1)

MaterialPath(MatSlot) ==
    IF ~StartsWith(MatSlot.InternalPath, s_SlashGame)
       /\ ~StartsWith(MatSlot.InternalPath, s_SlashEngine)
    THEN s_SlashGame \o MatSlot.InternalPath
    ELSE MatSlot.InternalPath

MaterialLoads(MatSlot) == \E m \in MaterialLibrary : FStringEq(m, MaterialPath(MatSlot))

\* int32 MatCount: the slots of a static or skeletal mesh, 0 for anything else
MatCount(glb) == IF glb.class \in {"StaticMesh", "SkeletalMesh"} THEN glb.slots ELSE 0

\* one iteration of "Restore unchanged materials".  UStaticMesh::SetMaterial
\* ignores an index that is not valid.
RestoreSlot(mesh, MatSlot) ==
    IF MatSlot.Idx >= Len(mesh.materials) \/ ~MaterialLoads(MatSlot) \/ MatSlot.Idx < 0
    THEN mesh
    ELSE [mesh EXCEPT !.materials[MatSlot.Idx + 1] = MaterialPath(MatSlot)]

RECURSIVE RestoreMaterials(_, _, _)
RestoreMaterials(mesh, Unchanged, i) ==
    IF i > Len(Unchanged) THEN mesh
    ELSE RestoreMaterials(RestoreSlot(mesh, Unchanged[i]), Unchanged, i + 1)

\* SkeletalMesh->GetMaterials()[MatSlot.Idx] with a negative index is an
\* out-of-range access of the array
RestoreCrashes(Item, glb) ==
    /\ glb.class = "SkeletalMesh"
    /\ \E i \in 1..Len(Item.MaterialChangeset.Unchanged) :
          /\ Item.MaterialChangeset.Unchanged[i].Idx < 0
          /\ MaterialLoads(Item.MaterialChangeset.Unchanged[i])

\* the lines the material step writes to the log
LogLine(level, msg, Name, a, b) == [level |-> level, msg |-> msg, Name |-> Name, a |-> a, b |-> b]
NoLogLine == LogLine("", "", "", 0, 0)

UnchangedLogLine(MatSlot, n) ==
    IF MatSlot.Idx >= n
    THEN LogLine("Warning", "Material slot %d out of bounds (mesh has %d slots)", "",
                 MatSlot.Idx, n)
    ELSE IF MaterialLoads(MatSlot)
    THEN LogLine("Log", "Restored unchanged material %s at slot %d", MatSlot.Name,
                 MatSlot.Idx, 0)
    ELSE NoLogLine

RestoreLog(Item, glb) ==
    SelectSeq([k \in 1..Len(Item.MaterialChangeset.Unchanged) |->
                  UnchangedLogLine(Item.MaterialChangeset.Unchanged[k], MatCount(glb))],
              LAMBDA l : l # NoLogLine)
    \o [k \in 1..Len(Item.MaterialChangeset.Added) |->
          LogLine("Log", "New material slot added in Blender: %s at slot %d (assign material in Unreal)",
                  Item.MaterialChangeset.Added[k].Name, Item.MaterialChangeset.Added[k].Idx, 0)]
    \o [k \in 1..Len(Item.MaterialChangeset.Removed) |->
          LogLine("Log", "Material removed in Blender: %s (was at slot %d)",
                  Item.MaterialChangeset.Removed[k].Name,
                  Item.MaterialChangeset.Removed[k].OriginalIdx, 0)]

\* mutant of ReconciledMesh: a slot listed as added is given the default
\* material
ReconciledMesh_DefaultsAdded(Item, glb) ==
    LET restored == RestoreMaterials(RenameMorphTargets(Item, ImportedMesh(glb)),
                                     Item.MaterialChangeset.Unchanged, 1)
    IN [restored EXCEPT !.materials =
          [k \in 1..Len(restored.materials) |->
              IF \E a \in 1..Len(Item.MaterialChangeset.Added) :
                     Item.MaterialChangeset.Added[a].Idx = k - 1
              THEN s_WorldGridMaterial ELSE restored.materials[k]]]

\* the imported mesh after the morph target and material steps
ReconciledMesh(Item, glb) ==
    RestoreMaterials(RenameMorphTargets(Item, ImportedMesh(glb)),
                     Item.MaterialChangeset.Unchanged, 1)

\* the steps GenerateImport runs for one record, in the order of its code
ImportSteps(Item, glb) ==
    <<"NormalizePath", "ImportAsset">>
    \o (IF RestoresMorphNames(Item, glb.class) THEN <<"RenameMorphTargets">> ELSE <<>>)
    \o <<"RestoreMaterials">>

\* the record of one import: where the mesh went and what was made of it
ImportRecord(Item, glb) ==
    [package |-> ImportPackageName(NormalizePath(Item.InternalPath), OriginalName(Item)),
     source |-> Item.ExportLocation,
     bIsSkeletalMesh |-> bIsSkeletalMesh(Item.StringType),
     glb |-> glb,
     mesh |-> ReconciledMesh(Item, glb),
     log |-> RestoreLog(Item, glb),
     steps |-> ImportSteps(Item, glb)]

\* mutant of ImportItems: a record whose import fails is skipped and the loop
\* goes on with the next record
RECURSIVE ImportItems_SkipsFailed(_, _, _, _, _)
ImportItems_SkipsFailed(Objects, i, outcomes, lib, done) ==
    IF i > Len(Objects)
    THEN [ok |-> TRUE, msg |-> Message("Operation was successful", "", NoFile, 0),
          assets |-> lib, imported |-> done, crashed |-> FALSE, fatal |-> ""]
    ELSE IF outcomes[i].error # ""
    THEN ImportItems_SkipsFailed(Objects, i + 1, outcomes, lib, done)
    ELSE IF MorphRenameCrashes(Objects[i], outcomes[i].glb)
    THEN [ok |-> TRUE, msg |-> Message("Asset Imported", "", NoFile, 0),
          assets |-> lib, imported |-> done, crashed |-> TRUE, fatal |-> "Rename"]
    ELSE IF RestoreCrashes(Objects[i], outcomes[i].glb)
    THEN [ok |-> TRUE, msg |-> Message("Asset Imported", "", NoFile, 0),
          assets |-> lib, imported |-> done, crashed |-> TRUE, fatal |-> "GetMaterials"]
    ELSE ImportItems_SkipsFailed(Objects, i + 1, outcomes,
                     (ImportRecord(Objects[i], outcomes[i].glb).package :>
                         ReconciledMesh(Objects[i], outcomes[i].glb)) @@ lib,
                     Append(done, ImportRecord(Objects[i], outcomes[i].glb)))

\* the loop of GenerateImport over BridgeData.Objects from record i on
RECURSIVE ImportItems(_, _, _, _, _)
ImportItems(Objects, i, outcomes, lib, done) ==
    IF i > Len(Objects)
    THEN [ok |-> TRUE, msg |-> Message("Operation was successful", "", NoFile, 0),
          assets |-> lib, imported |-> done, crashed |-> FALSE, fatal |-> ""]
    ELSE IF outcomes[i].error # ""
    THEN [ok |-> FALSE, msg |-> Message(outcomes[i].error, "", NoFile, 0),
          assets |-> lib, imported |-> done, crashed |-> FALSE, fatal |-> ""]
    ELSE IF MorphRenameCrashes(Objects[i], outcomes[i].glb)
    THEN [ok |-> TRUE, msg |-> Message("Asset Imported", "", NoFile, 0),
          assets |-> lib, imported |-> done, crashed |-> TRUE, fatal |-> "Rename"]
    ELSE IF RestoreCrashes(Objects[i], outcomes[i].glb)
    THEN [ok |-> TRUE, msg |-> Message("Asset Imported", "", NoFile, 0),
          assets |-> lib, imported |-> done, crashed |-> TRUE, fatal |-> "GetMaterials"]
    ELSE ImportItems(Objects, i + 1, outcomes,
                     (ImportRecord(Objects[i], outcomes[i].glb).package :>
                         ReconciledMesh(Objects[i], outcomes[i].glb)) @@ lib,
                     Append(done, ImportRecord(Objects[i], outcomes[i].glb)))

\* GenerateImport once the manifest has been read
ImportManifest(BridgeData, outcomes) ==
    IF ~BridgeData.ok
    THEN [ok |-> FALSE, msg |-> BridgeData.msg, assets |-> assets, imported |-> <<>>,
          crashed |-> FALSE, fatal |-> ""]
    ELSE ImportItems(BridgeData.data.Objects, 1, outcomes, assets, <<>>)

GenerateImportResult(BridgeData, r) ==
    /\ op' = "GenerateImport"
    /\ bIsSuccessful' = r.ok
    /\ OutMessage' = r.msg
    /\ assets' = r.assets
    /\ ret' = [NoReturn EXCEPT !.data = BridgeData.data, !.path = BridgeData.path,
                               !.imported = r.imported, !.crashed = r.crashed,
                               !.fatal = r.fatal, !.assigned = BothAssigned]

\* one import pass over the bridge directory as it stands, the external
\* importer giving one of the given outcomes for each record
GenerateImportWith(Outcomes) ==
    \E loadOk \in BOOLEAN, outcomes \in Outcomes :
       GenerateImportResult(ReadBridgeExportFile(loadOk),
                            ImportManifest(ReadBridgeExportFile(loadOk), outcomes))

GenerateImport ==
    /\ op = "none"
    /\ GenerateImportWith([1..MaxObjects -> ImportOutcomes])
    /\ UNCHANGED <<normVars, files, geometry, resolver, session>>

\* records whose changeset and morph target names exercise the reconciler
slot_Far == [Idx |-> 5, Name |-> "Far", InternalPath |-> SlashLed(<<s_A, s_M>>), OriginalIdx |-> 0]
slot_Neg == [Idx |-> -1, Name |-> "Neg", InternalPath |-> SlashLed(<<s_A, s_M>>), OriginalIdx |-> 0]
slot_New == [Idx |-> 1, Name |-> "New", InternalPath |-> <<>>, OriginalIdx |-> 0]

rec_Oob ==
    [rec_Hero EXCEPT
        !.MaterialChangeset = [Added |-> <<slot_New>>, Removed |-> <<slot_Hair>>,
                               Unchanged |-> <<slot_Far, slot_Skin>>]]
rec_Neg ==
    [rec_Bar EXCEPT
        !.MorphTargets = <<>>,
        !.MaterialChangeset = [Added |-> <<>>, Removed |-> <<>>,
                               Unchanged |-> <<slot_Neg, slot_Skin>>]]
rec_Morph1 == [rec_Bar EXCEPT !.MorphTargets = <<s_Smile>>]
rec_MorphSwap == [rec_Bar EXCEPT !.MorphTargets = <<s_m1, s_m0>>]
rec_MorphCase == [rec_Bar EXCEPT !.MorphTargets = <<s_M0, s_Blink>>]
rec_Morph3 == [rec_Bar EXCEPT !.MorphTargets = <<s_Smile, s_Blink, s_Jaw>>]

ReconcileRecords == <<rec_Oob, rec_Neg, rec_Morph1, rec_MorphSwap, rec_MorphCase, rec_Morph3>>

ReconcileManifests ==
    {[Operation |-> "BlenderExport",
      Objects |-> [i \in 1..n |->
                      ReconcileRecords[((start + i - 2) % Len(ReconcileRecords)) + 1]]] :
        start \in 1..Len(ReconcileRecords), n \in 1..MaxObjects}

\* what the other application may have left in the bridge directory
PrimaryContents ==
    {NoFile} \cup ForeignContents
    \cup {JsonFile(UStructToJsonObject(m)) : m \in Manifests \cup ReconcileManifests}
LegacyContents ==
    {NoFile, JsonFile(UStructToJsonObject([Operation |-> "BlenderExport",
                                           Objects |-> <<rec_Cam>>]))}

ImportInit ==
    /\ NormIdle
    /\ files \in [FileNames -> PrimaryContents \cup LegacyContents]
    /\ files[PrimaryFile] \in PrimaryContents
    /\ files[LegacyFile] \in LegacyContents
    /\ files[ExportFile] = NoFile
    /\ geometry = {}
    /\ op = "none"
    /\ bIsSuccessful = FALSE
    /\ OutMessage = NoMessage
    /\ ret = NoReturn
    /\ assets = <<>>
    /\ resolver = NoResolver
    /\ session = NoSession

ImportNext == GenerateImport

SpecImport == ImportInit /\ [][ImportNext]_vars

(***************************************************************************)
(* Claims about decoding on import                                         *)
(***************************************************************************)
\* the file GenerateImport chose was opened and loaded
ImportLoaded ==
    /\ op = "GenerateImport"
    /\ OutMessage.msg \notin {"failed to open file for reading: '%s'",
                              "unable to read file: '%s'"}

\* text that does not parse as a JSON object, or a JSON object that is not
\* of the manifest's shape
NotParseable(c) == c.t = "garbage" \/ (c.t = "json" /\ c.v.j # "object")
WrongShape(c) == c.t = "json" /\ c.v.j = "object" /\ ~JsonObjectToUStruct(c.v).ok
StructurallyInvalid(c) == NotParseable(c) \/ WrongShape(c)

\* C7: a manifest file whose content is structurally invalid (not
\* parseable, or not of the expected shape) makes GenerateImport fail with
\* an error that carries the path of the manifest file, with no records
\* returned and nothing imported.
C7_MalformedCarriesPath ==
    (ImportLoaded /\ StructurallyInvalid(files[ret.path]))
        => /\ ~bIsSuccessful
           /\ OutMessage.path = ret.path
           /\ ret.data = DefaultBridgeExport
           /\ ret.imported = <<>>

\* C7, what the code does: on a structurally invalid manifest file
\* GenerateImport fails, returns no records and imports nothing; the error
\* carries the path of the file when the document has the wrong shape, and
\* the text of the file, without its path, when it cannot be parsed.
C7_MalformedFailsWithoutImport ==
    (ImportLoaded /\ StructurallyInvalid(files[ret.path]))
        => /\ ~bIsSuccessful
           /\ ret.data = DefaultBridgeExport
           /\ ret.imported = <<>>
           /\ WrongShape(files[ret.path])
                 => OutMessage =
                      Message("Invalid json detected for this operation on file: %s",
                              ret.path, NoFile, 0)
           /\ NotParseable(files[ret.path])
                 => OutMessage = Message("failed to read json object: %s", "",
                                         files[ret.path], 0)

\* GenerateImport ran on a from-blender.json that cannot be parsed
C7_Witness ==
    /\ ImportLoaded
    /\ ret.path = PrimaryFile
    /\ files[PrimaryFile] = Garbage
    /\ ~bIsSuccessful
    /\ OutMessage.path = ""

\* the manifest GenerateImport read was decoded
ImportDecoded ==
    /\ ImportLoaded
    /\ files[ret.path].t = "json"
    /\ files[ret.path].v.j = "object"
    /\ JsonObjectToUStruct(files[ret.path].v).ok

MaxWorldSel == 2
MaxLibSel == 2

s_B == <<"B">>

\* the objects of the content library: the handle AssetInfo.GetAsset()
\* gives, the object path, the class and what the mesh holds
asset_Hero ==
    [ptr |-> "Hero", ObjectPath |-> ObjectPath(s_A, s_Hero), class |-> "StaticMesh",
     Materials |-> <<[MaterialSlotName |-> "Skin", MaterialInterface |-> ObjectPath(s_A, s_M)]>>,
     Skeleton |-> <<>>, MorphTargets |-> <<>>]
asset_Bar ==
    [ptr |-> "Bar", ObjectPath |-> ObjectPath(s_B, s_Bar), class |-> "SkeletalMesh",
     Materials |-> <<[MaterialSlotName |-> "Skin", MaterialInterface |-> ObjectPath(s_A, s_M)],
                     [MaterialSlotName |-> "Eyes", MaterialInterface |-> <<>>]>>,
     Skeleton |-> ObjectPath(s_B, s_Sk), MorphTargets |-> <<s_Smile, s_Blink>>]
asset_M ==
    [ptr |-> "M", ObjectPath |-> ObjectPath(s_A, s_M), class |-> "Material",
     Materials |-> <<>>, Skeleton |-> <<>>, MorphTargets |-> <<>>]
InvalidAsset ==
    [ptr |-> NullPtr, ObjectPath |-> <<>>, class |-> "none",
     Materials |-> <<>>, Skeleton |-> <<>>, MorphTargets |-> <<>>]

LibraryAssets == {asset_Hero, asset_Bar, asset_M}

\* the actors of the level: name, the asset GetDetailedInfo resolves to,
\* and the placement (Rotation as Roll, Pitch, Yaw)
actor_Hero1 ==
    [Name |-> "Hero_1", asset |-> asset_Hero, Location |-> <<10, 20, 30>>,
     Rotation |-> <<0, 90, 0>>, Scale |-> <<1, 1, 1>>]
actor_Hero2 ==
    [Name |-> "Hero_2", asset |-> asset_Hero, Location |-> <<40, 0, 0>>,
     Rotation |-> <<0, 0, 45>>, Scale |-> <<2, 2, 2>>]
actor_Bar1 ==
    [Name |-> "Bar_1", asset |-> asset_Bar, Location |-> <<0, 50, 0>>,
     Rotation |-> <<0, 0, 0>>, Scale |-> <<1, 1, 1>>]
actor_Light ==
    [Name |-> "Light_1", asset |-> InvalidAsset, Location |-> <<0, 0, 90>>,
     Rotation |-> <<0, 0, 0>>, Scale |-> <<1, 1, 1>>]

LevelActors == {actor_Hero1, actor_Hero2, actor_Bar1, actor_Light}

\* a selection: distinct elements of S in some order, at most n of them
Selections(S, n) ==
    {s \in UNION {[1..k -> S] : k \in 0..n} :
        \A i, k \in DOMAIN s : i # k => s[i] # s[k]}

\* FPaths::GetPath: the text before the last "/"
GetPath(InPath) ==
    IF \E i \in 1..Len(InPath) : InPath[i] = "/"
    THEN SubSeq(InPath, 1,
                (CHOOSE i \in 1..Len(InPath) :
                    InPath[i] = "/" /\ \A k \in (i + 1)..Len(InPath) : InPath[k] # "/") - 1)
    ELSE <<>>

\* FPaths::GetCleanFilename: the text after the last "/"
GetCleanFilename(InPath) == SubSeq(InPath, Len(GetPath(InPath)) + 2, Len(InPath))

\* the text before the last "."
RemoveExtension(Name) ==
    IF \E i \in 1..Len(Name) : Name[i] = "."
    THEN SubSeq(Name, 1,
                (CHOOSE i \in 1..Len(Name) :
                    Name[i] = "." /\ \A k \in (i + 1)..Len(Name) : Name[k] # ".") - 1)
    ELSE Name

\* FString::Split(".", &Left, NULL): the text before the first "."
GetPathWithoutExt(InPath) ==
    IF \E i \in 1..Len(InPath) : InPath[i] = "."
    THEN SubSeq(InPath, 1,
                (CHOOSE i \in 1..Len(InPath) :
                    InPath[i] = "." /\ \A k \in 1..(i - 1) : InPath[k] # ".") - 1)
    ELSE <<>>

\* FString::Replace(From, ""), ignoring case, every occurrence
RECURSIVE RemoveAll(_, _)
RemoveAll(s, From) ==
    IF s = <<>> THEN <<>>
    ELSE IF StartsWith(s, From) THEN RemoveAll(SubSeq(s, Len(From) + 1, Len(s)), From)
    ELSE <<s[1]>> \o RemoveAll(Tail(s), From)

\* FString::PathAppend (operator /), as FPaths::Combine applies it
PathAppend(a, b) ==
    IF a = <<>> THEN b
    ELSE IF a[Len(a)] = "/" \/ (b # <<>> /\ b[1] = "/") THEN a \o b
    ELSE a \o s_Slash \o b

ToMaterialSlots(Materials) ==
    [i \in 1..Len(Materials) |->
        [Idx |-> i - 1, Name |-> Materials[i].MaterialSlotName,
         InternalPath |-> GetPathWithoutExt(Materials[i].MaterialInterface),
         OriginalIdx |-> DefaultMaterialSlot.OriginalIdx]]

\* UAssetsBridgeTools::GetExportInfo: the record of a library object
GetExportInfo(AssetInfo) ==
    [DefaultExportAsset EXCEPT
        !.ModelPtr = AssetInfo.ptr,
        !.Model = AssetInfo.ObjectPath,
        !.ShortName = RemoveExtension(GetCleanFilename(AssetInfo.ObjectPath)),
        !.ExportLocation =
            PathAppend(PathAppend(s_Root, RemoveAll(GetPath(AssetInfo.ObjectPath), s_SlashGame)),
                       RemoveExtension(GetCleanFilename(AssetInfo.ObjectPath)) \o s_glb),
        !.InternalPath = RemoveAll(GetPath(AssetInfo.ObjectPath), s_SlashGame),
        !.RelativeExportPath = RemoveAll(GetPath(AssetInfo.ObjectPath), s_SlashGame),
        !.StringType = IF AssetInfo.class = "StaticMesh" THEN s_StaticMesh
                       ELSE IF AssetInfo.class = "SkeletalMesh" THEN s_SkeletalMesh
                       ELSE s_Unknown,
        !.ObjectMaterials = IF AssetInfo.class \in {"StaticMesh", "SkeletalMesh"}
                            THEN ToMaterialSlots(AssetInfo.Materials) ELSE <<>>,
        !.Skeleton = IF AssetInfo.class = "SkeletalMesh" THEN AssetInfo.Skeleton ELSE <<>>,
        !.MorphTargets = IF AssetInfo.class = "SkeletalMesh"
                         THEN AssetInfo.MorphTargets ELSE <<>>]

\* UAssetsBridgeTools::GetWorldSelectedAssets: the selected actors whose
\* asset data is valid, in selection order
GetWorldSelectedAssets(actors) == SelectSeq(actors, LAMBDA a : a.asset # InvalidAsset)

\* the body of StartExport's loop over the world selection
WorldRecord(SelItem) ==
    [GetExportInfo(SelItem.asset) EXCEPT
        !.WorldData = [Location |-> SelItem.Location, Rotation |-> SelItem.Rotation,
                       Scale |-> SelItem.Scale],
        !.ObjectID = SelItem.Name]

\* the path name and the class of the object a handle points to
GetPathName(ptr) == (CHOOSE a \in LibraryAssets : a.ptr = ptr).ObjectPath
ClassOf(ptr) == (CHOOSE a \in LibraryAssets : a.ptr = ptr).class

\* mutant of HasMatchingExport: nothing ever matches
HasMatchingExport_Never(Assets, InAsset) == FALSE

\* UBridgeManager::HasMatchingExport (FString::Equals is case sensitive)
HasMatchingExport(Assets, InAsset) ==
    \E i \in 1..Len(Assets) :
        /\ Assets[i].ModelPtr # NullPtr
        /\ GetPathName(Assets[i].ModelPtr) = GetPathName(InAsset.ptr)

\* StartExport's loop over the content browser selection
RECURSIVE AddSelectedAssets(_, _, _)
AddSelectedAssets(ExportArray, SelectedAssets, i) ==
    IF i > Len(SelectedAssets) THEN ExportArray
    ELSE IF HasMatchingExport(ExportArray, SelectedAssets[i])
    THEN AddSelectedAssets(ExportArray, SelectedAssets, i + 1)
    ELSE AddSelectedAssets(Append(ExportArray, GetExportInfo(SelectedAssets[i])),
                           SelectedAssets, i + 1)

\* the ExportArray StartExport hands to GenerateExport
CollectExports(Selection, SelectedAssets) ==
    AddSelectedAssets([i \in 1..Len(Selection) |-> WorldRecord(Selection[i])],
                      SelectedAssets, 1)

\* IFileManager::DirectoryExists: a directory that holds a geometry file exists
DirectoryExists(dir, geo) == \E f \in geo : GetPath(f) = dir

\* the directory is absent and MakeDirectory fails on it
CannotCreate(dir, unwritable, geo) == dir \in unwritable /\ ~DirectoryExists(dir, geo)

\* mutant of ExportItems: a record stays in the manifest although its export
\* task failed
RECURSIVE ExportItems_KeepsFailed(_, _, _, _, _, _)
ExportItems_KeepsFailed(MeshDataArray, i, unwritable, failing, Objects, geo) ==
    IF i > Len(MeshDataArray)
    THEN [ok |-> TRUE, Objects |-> Objects, geometry |-> geo, msg |-> NoMessage]
    ELSE IF CannotCreate(GetPath(MeshDataArray[i].ExportLocation), unwritable, geo)
    THEN [ok |-> FALSE, Objects |-> Objects, geometry |-> geo,
          msg |-> Message("%s. The destination directory could not be created.", "",
                          [t |-> "path", p |-> GetPath(MeshDataArray[i].ExportLocation)], 0)]
    ELSE IF /\ MeshDataArray[i].ModelPtr # NullPtr
            /\ ClassOf(MeshDataArray[i].ModelPtr) \in {"StaticMesh", "SkeletalMesh"}
    THEN ExportItems_KeepsFailed(MeshDataArray, i + 1, unwritable, failing,
                     Append(Objects, MeshDataArray[i]),
                     IF MeshDataArray[i].ModelPtr \in failing
                     THEN geo ELSE geo \cup {MeshDataArray[i].ExportLocation})
    ELSE ExportItems_KeepsFailed(MeshDataArray, i + 1, unwritable, failing, Objects, geo)

\* the loop of GenerateExport from record i on: unwritable are the
\* directories MakeDirectory cannot create, failing the objects whose export
\* task fails
RECURSIVE ExportItems(_, _, _, _, _, _)
ExportItems(MeshDataArray, i, unwritable, failing, Objects, geo) ==
    IF i > Len(MeshDataArray)
    THEN [ok |-> TRUE, Objects |-> Objects, geometry |-> geo, msg |-> NoMessage]
    ELSE IF CannotCreate(GetPath(MeshDataArray[i].ExportLocation), unwritable, geo)
    THEN [ok |-> FALSE, Objects |-> Objects, geometry |-> geo,
          msg |-> Message("%s. The destination directory could not be created.", "",
                          [t |-> "path", p |-> GetPath(MeshDataArray[i].ExportLocation)], 0)]
    ELSE IF /\ MeshDataArray[i].ModelPtr # NullPtr
            /\ ClassOf(MeshDataArray[i].ModelPtr) \in {"StaticMesh", "SkeletalMesh"}
            /\ MeshDataArray[i].ModelPtr \notin failing
    THEN ExportItems(MeshDataArray, i + 1, unwritable, failing,
                     Append(Objects, MeshDataArray[i]),
                     geo \cup {MeshDataArray[i].ExportLocation})
    ELSE ExportItems(MeshDataArray, i + 1, unwritable, failing, Objects, geo)

\* mutant of EmptySelection: the selection is not checked
EmptySelection_Unchecked(Selection, SelectedAssets) == FALSE

\* StartExport: Selection.Num() == 0 && SelectedAssets.Num() == 0
EmptySelection(Selection, SelectedAssets) == Len(Selection) = 0 /\ Len(SelectedAssets) = 0

\* mutant of GenerateExport: the manifest is written although a directory
\* could not be created
GenerateExport_WritesAnyway(exported, saveOk) ==
    [ok |-> exported.ok /\ WriteBridgeExportFile([Operation |-> "UnrealExport",
                                                  Objects |-> exported.Objects], saveOk).ok,
     msg |-> IF exported.ok
             THEN WriteBridgeExportFile([Operation |-> "UnrealExport",
                                         Objects |-> exported.Objects], saveOk).msg
             ELSE exported.msg,
     files |-> WriteBridgeExportFile([Operation |-> "UnrealExport",
                                      Objects |-> exported.Objects], saveOk).files,
     geometry |-> exported.geometry]

\* GenerateExport once the records have been exported: the manifest is
\* written unless a directory could not be created
GenerateExport(exported, saveOk) ==
    IF ~exported.ok
    THEN [ok |-> FALSE, msg |-> exported.msg, files |-> files, geometry |-> exported.geometry]
    ELSE [ok |-> WriteBridgeExportFile([Operation |-> "UnrealExport",
                                        Objects |-> exported.Objects], saveOk).ok,
          msg |-> WriteBridgeExportFile([Operation |-> "UnrealExport",
                                         Objects |-> exported.Objects], saveOk).msg,
          files |-> WriteBridgeExportFile([Operation |-> "UnrealExport",
                                           Objects |-> exported.Objects], saveOk).files,
          geometry |-> exported.geometry]

\* GetExportInfo assigns the out-parameters whenever it runs, and it runs
\* unless both selections are empty
GetExportInfoRan(Selection, SelectedAssets) == Selection # <<>> \/ SelectedAssets # <<>>

StartExportResult(Selection, SelectedAssets, ExportArray, r) ==
    /\ op' = "StartExport"
    /\ bIsSuccessful' = r.ok
    /\ OutMessage' = r.msg
    /\ files' = r.files
    /\ geometry' = r.geometry
    /\ ret' = [NoReturn EXCEPT !.collected = ExportArray, !.Selection = Selection,
                               !.SelectedAssets = SelectedAssets,
                               !.unwritable = r.unwritable, !.failing = r.failing,
                               !.saveOk = r.saveOk,
                               !.assigned =
                                   IF EmptySelection(Selection, SelectedAssets)
                                      \/ GetExportInfoRan(Selection, SelectedAssets)
                                   THEN BothAssigned ELSE {}]

\* StartExport on one of the given selections, with one of the given sets
\* of directories that cannot be created and of objects whose export fails
StartExportWith(ActorSelections, BrowserSelections, Unwritable, Failing) ==
    \E actors \in ActorSelections, browser \in BrowserSelections,
       unwritable \in Unwritable, failing \in Failing, saveOk \in BOOLEAN :
          IF EmptySelection(GetWorldSelectedAssets(actors), browser)
          THEN StartExportResult(GetWorldSelectedAssets(actors), browser, <<>>,
                   [ok |-> FALSE, files |-> files, geometry |-> geometry,
                    msg |-> Message("Please select at least one item in the level / content browser to export.",
                                    "", NoFile, 0),
                    unwritable |-> {}, failing |-> {}, saveOk |-> TRUE])
          ELSE StartExportResult(GetWorldSelectedAssets(actors), browser,
                   CollectExports(GetWorldSelectedAssets(actors), browser),
                   IF GetExportInfoRan(GetWorldSelectedAssets(actors), browser) \/ bIsSuccessful
                   THEN GenerateExport(
                            ExportItems(CollectExports(GetWorldSelectedAssets(actors), browser),
                                        1, unwritable, failing, <<>>, geometry),
                            saveOk)
                        @@ [unwritable |-> unwritable, failing |-> failing, saveOk |-> saveOk]
                   ELSE [ok |-> bIsSuccessful, files |-> files, geometry |-> geometry,
                         msg |-> OutMessage, unwritable |-> {}, failing |-> {},
                         saveOk |-> TRUE])

StartExport ==
    /\ op = "none"
    /\ StartExportWith(Selections(LevelActors, MaxWorldSel),
                       Selections(LibraryAssets, MaxLibSel),
                       SUBSET {s_Root \o SlashLed(<<s_A>>), s_Root \o SlashLed(<<s_B>>)},
                       SUBSET {asset_Hero.ptr, asset_Bar.ptr})
    /\ UNCHANGED <<normVars, assets, resolver, session>>

\* what an earlier export may have left in the bridge directory
ExportInit ==
    /\ NormIdle
    /\ files \in [FileNames -> {NoFile, JsonFile(UStructToJsonObject(
                                    [Operation |-> "UnrealExport",
                                     Objects |-> <<GetExportInfo(asset_Hero)>>]))}]
    /\ files[PrimaryFile] = NoFile
    /\ files[LegacyFile] = NoFile
    /\ geometry \in SUBSET {GetExportInfo(asset_Hero).ExportLocation}
    /\ op = "none"
    /\ bIsSuccessful = FALSE
    /\ OutMessage = NoMessage
    /\ ret = NoReturn
    /\ assets = <<>>
    /\ resolver = NoResolver
    /\ session = NoSession

ExportNext == StartExport

SpecExport == ExportInit /\ [][ExportNext]_vars

(***************************************************************************)
(* Claims about the export collector                                       *)
(***************************************************************************)
\* C9: empty selection fails fast.  A StartExport that finds both the world
\* selection and the content browser selection empty returns failure with
\* the message asking for a selection, collects no record, exports no
\* geometry file and leaves every file of the bridge directory, the
\* manifest included, as it was.
C9_EmptySelectionFailsFast ==
    [][(op' = "StartExport" /\ ret'.Selection = <<>> /\ ret'.SelectedAssets = <<>>)
          => /\ ~bIsSuccessful'
             /\ OutMessage'.msg =
                  "Please select at least one item in the level / content browser to export."
             /\ ret'.collected = <<>>
             /\ geometry' = geometry
             /\ files' = files]_vars

\* an export with nothing selected, over a bridge directory that holds the
\* manifest and a geometry file of an earlier export
C9_Witness ==
    /\ op = "StartExport"
    /\ ret.Selection = <<>> /\ ret.SelectedAssets = <<>>
    /\ ~bIsSuccessful
    /\ files[ExportFile] # NoFile
    /\ geometry # {}

\* positions of the collected records that resolve to an object, of the
\* selected instances of the object, and of the object in the content
\* browser selection
RecordsOf(ptr) == {i \in 1..Len(ret.collected) : ret.collected[i].ModelPtr = ptr}
InstancesOf(ptr) == {i \in 1..Len(ret.Selection) : ret.Selection[i].asset.ptr = ptr}
BrowserSelected(ptr) == \E i \in 1..Len(ret.SelectedAssets) : ret.SelectedAssets[i].ptr = ptr

\* the record at position i is that of the selected instance i
WorldDerived(i) ==
    /\ i <= Len(ret.collected)
    /\ ret.collected[i].ObjectID = ret.Selection[i].Name
    /\ ret.collected[i].WorldData =
          [Location |-> ret.Selection[i].Location, Rotation |-> ret.Selection[i].Rotation,
           Scale |-> ret.Selection[i].Scale]

\* C10 as stated: an object selected in the world and in the content
\* browser has exactly one record, which carries the world transform of an
\* instance.
C10_ExactlyOneRecord ==
    op = "StartExport" =>
        \A a \in LibraryAssets :
            (InstancesOf(a.ptr) # {} /\ BrowserSelected(a.ptr))
                => /\ Cardinality(RecordsOf(a.ptr)) = 1
                   /\ \A i \in RecordsOf(a.ptr) : i \in InstancesOf(a.ptr) /\ WorldDerived(i)

\* C10: collector deduplication.  An object with selected world instances
\* has one record per selected instance, each with the name and the world
\* transform of its instance, and no other record, whether or not the object
\* is also selected in the content browser.  An object selected in the
\* content browser gets a record of its own, without world transform and
\* without identity, exactly when no selected instance resolves to it.
C10_OneRecordPerInstance ==
    op = "StartExport" =>
        \A a \in LibraryAssets :
            /\ InstancesOf(a.ptr) # {}
                  => /\ RecordsOf(a.ptr) = InstancesOf(a.ptr)
                     /\ \A i \in InstancesOf(a.ptr) : WorldDerived(i)
            /\ BrowserSelected(a.ptr)
                  => ((\E i \in RecordsOf(a.ptr) : i > Len(ret.Selection))
                         <=> InstancesOf(a.ptr) = {})
            /\ (BrowserSelected(a.ptr) /\ InstancesOf(a.ptr) = {})
                  => /\ Cardinality(RecordsOf(a.ptr)) = 1
                     /\ \A i \in RecordsOf(a.ptr) :
                           /\ ret.collected[i].WorldData = DefaultExportAsset.WorldData
                           /\ ret.collected[i].ObjectID = DefaultExportAsset.ObjectID
            /\ (~BrowserSelected(a.ptr) /\ InstancesOf(a.ptr) = {}) => RecordsOf(a.ptr) = {}

\* one instance of the static mesh selected in the level, the static mesh
\* and the skeletal mesh selected in the content browser: one record for the
\* static mesh, with the instance's transform, then the skeletal mesh
C10_Witness ==
    /\ op = "StartExport"
    /\ ret.Selection = <<actor_Hero1>>
    /\ ret.SelectedAssets = <<asset_Hero, asset_Bar>>
    /\ Len(ret.collected) = 2
    /\ ret.collected[1].ModelPtr = asset_Hero.ptr
    /\ ret.collected[1].WorldData.Location = actor_Hero1.Location
    /\ ret.collected[2].ModelPtr = asset_Bar.ptr

(***************************************************************************)
(* Claims about the identities of an exported manifest                     *)
(***************************************************************************)
\* StartExport returned success: GenerateExport wrote from-unreal.json
ExportWritten == op = "StartExport" /\ bIsSuccessful

\* the records of the manifest in from-unreal.json
ExportedObjects == JsonObjectToUStruct(files[ExportFile].v).v.Objects

\* C11 as stated: in every manifest an export produces the ObjectID values
\* of the records are pairwise distinct.
C11_IdentitiesDistinct ==
    ExportWritten =>
        \A i, k \in 1..Len(ExportedObjects) :
            i # k => ExportedObjects[i].ObjectID # ExportedObjects[k].ObjectID

\* C11, what the code does: a world-derived record carries the name of its
\* instance, so the records of two selected instances differ in ObjectID;
\* a record added for the content browser selection has the empty ObjectID.
\* In the manifest written, two records share an ObjectID only when both are
\* content browser records, and a non-empty ObjectID is the name of a
\* selected instance of the record's object.
C11_WorldIdentitiesDistinct ==
    ExportWritten =>
        /\ \A i \in 1..Len(ret.collected) :
              IF i <= Len(ret.Selection)
              THEN ret.collected[i].ObjectID = ret.Selection[i].Name
              ELSE ret.collected[i].ObjectID = ""
        /\ \A i, k \in 1..Len(ExportedObjects) :
              (i # k /\ ExportedObjects[i].ObjectID = ExportedObjects[k].ObjectID)
                 => ExportedObjects[i].ObjectID = ""
        /\ \A i \in 1..Len(ExportedObjects) :
              ExportedObjects[i].ObjectID # ""
                 => \E k \in 1..Len(ret.Selection) :
                       /\ ret.Selection[k].Name = ExportedObjects[i].ObjectID
                       /\ ret.Selection[k].asset.ObjectPath = ExportedObjects[i].Model

\* two instances of the static mesh were selected and exported: the manifest
\* holds two records of the mesh, told apart by the instance names
C11_Witness ==
    /\ ExportWritten
    /\ ret.Selection = <<actor_Hero1, actor_Hero2>>
    /\ Len(ExportedObjects) = 2
    /\ ExportedObjects[1].Model = ExportedObjects[2].Model
    /\ ExportedObjects[1].ObjectID = "Hero_1"
    /\ ExportedObjects[2].ObjectID = "Hero_2"

(***************************************************************************)
(* MaterialReconciler: the changeset between the material slots recorded   *)
(* in from-unreal.json and the slots of the mesh as it comes back.  The    *)
(* diff is computed by the other side of the bridge before it writes       *)
(* from-blender.json; GenerateImport consumes its result.                  *)
(***************************************************************************)
MaxSlots == 2

s_Skin == <<"S","k","i","n">>
s_SkinV2 == <<"S","k","i","n","V","2">>
s_Eyes == <<"E","y","e","s">>
s_Teeth == <<"T","e","e","t","h">>

\* the materials a slot may hold: slot name and material path
DiffMaterials ==
    {[Name |-> "Skin", InternalPath |-> SlashLed(<<s_M, s_Skin>>)],
     [Name |-> "Skin", InternalPath |-> SlashLed(<<s_M, s_SkinV2>>)],
     [Name |-> "Eyes", InternalPath |-> SlashLed(<<s_M, s_Eyes>>)],
     [Name |-> "Teeth", InternalPath |-> SlashLed(<<s_M, s_Teeth>>)]}

SlotOf(idx, m) ==
    [DefaultMaterialSlot EXCEPT !.Idx = idx, !.Name = m.Name, !.InternalPath = m.InternalPath]

\* the elements of a set of indices in ascending order
RECURSIVE Ascending(_)
Ascending(I) ==
    IF I = {} THEN <<>>
    ELSE <<CHOOSE m \in I : \A k \in I : m <= k>>
         \o Ascending(I \ {CHOOSE m \in I : \A k \in I : m <= k})

\* slot lists as GetExportInfo records them: indices 0..n-1 in order
PreviousLists ==
    UNION {{[k \in 1..n |-> SlotOf(k - 1, f[k])] : f \in [1..n -> DiffMaterials]} :
             n \in 0..MaxSlots}

\* slot lists of the mesh as it comes back: distinct indices, ascending
CurrentLists ==
    UNION {{[k \in 1..Cardinality(I) |-> SlotOf(Ascending(I)[k], f[Ascending(I)[k]])] :
               f \in [I -> DiffMaterials]} :
             I \in {J \in SUBSET (0..MaxSlots) : Cardinality(J) <= MaxSlots}}

HasIdx(slots, idx) == \E i \in 1..Len(slots) : slots[i].Idx = idx
HasIdxAndName(slots, s) ==
    \E i \in 1..Len(slots) : slots[i].Idx = s.Idx /\ slots[i].Name = s.Name
HasName(slots, s) == \E i \in 1..Len(slots) : slots[i].Name = s.Name

\* the removed slots keep their index under OriginalIdx
AsRemoved(slots) == [i \in 1..Len(slots) |-> [slots[i] EXCEPT !.OriginalIdx = slots[i].Idx]]

\* mutant of MaterialDiff: a slot matches on index and name together
MaterialDiff_ByIndexAndName(previous, current) ==
    [Added |-> SelectSeq(current, LAMBDA s : ~HasIdxAndName(previous, s)),
     Removed |-> AsRemoved(SelectSeq(previous, LAMBDA s : ~HasIdxAndName(current, s))),
     Unchanged |-> SelectSeq(current, LAMBDA s : HasIdxAndName(previous, s))]

\* mutant of MaterialDiff: a slot matches on its name
MaterialDiff_ByName(previous, current) ==
    [Added |-> SelectSeq(current, LAMBDA s : ~HasName(previous, s)),
     Removed |-> AsRemoved(SelectSeq(previous, LAMBDA s : ~HasName(current, s))),
     Unchanged |-> SelectSeq(current, LAMBDA s : HasName(previous, s))]

\* diff(previous, current): a slot of current is unchanged if a slot with
\* its index exists in previous, added otherwise; a slot of previous whose
\* index no slot of current has is removed
MaterialDiff(previous, current) ==
    [Added |-> SelectSeq(current, LAMBDA s : ~HasIdx(previous, s.Idx)),
     Removed |-> AsRemoved(SelectSeq(previous, LAMBDA s : ~HasIdx(current, s.Idx))),
     Unchanged |-> SelectSeq(current, LAMBDA s : HasIdx(previous, s.Idx))]

\* the record sent back for a record of from-unreal.json
Reconciled(Item, current) ==
    [Item EXCEPT !.ObjectMaterials = current,
                 !.MaterialChangeset = MaterialDiff(Item.ObjectMaterials, current)]

\* the other application answers an export: it reads from-unreal.json and
\* writes from-blender.json with the changeset of every record
BlenderExport ==
    /\ op = "none"
    /\ files[ExportFile] # NoFile
    /\ \E current \in CurrentLists :
          files' = [files EXCEPT ![PrimaryFile] =
                      JsonFile(UStructToJsonObject(
                         [Operation |-> "BlenderExport",
                          Objects |->
                             [i \in 1..Len(ExportedObjects) |->
                                 Reconciled(ExportedObjects[i], current)]]))]
    /\ op' = "BlenderExport"
    /\ UNCHANGED <<normVars, geometry, bIsSuccessful, OutMessage, ret, assets, resolver, session>>

\* from-unreal.json as an export of one mesh left it
DiffInit ==
    /\ NormIdle
    /\ \E previous \in PreviousLists :
          files = [f \in FileNames |->
                      IF f = ExportFile
                      THEN JsonFile(UStructToJsonObject(
                              [Operation |-> "UnrealExport",
                               Objects |-> <<[GetExportInfo(asset_Hero) EXCEPT
                                                 !.ObjectMaterials = previous]>>]))
                      ELSE NoFile]
    /\ geometry = {GetExportInfo(asset_Hero).ExportLocation}
    /\ op = "none"
    /\ bIsSuccessful = FALSE
    /\ OutMessage = NoMessage
    /\ ret = NoReturn
    /\ assets = <<>>
    /\ resolver = NoResolver
    /\ session = NoSession

DiffNext == BlenderExport

SpecDiff == DiffInit /\ [][DiffNext]_vars

(***************************************************************************)
(* Claims about the material diff                                          *)
(***************************************************************************)
\* the slot lists and the changeset of the record that was sent back
DiffDone == op = "BlenderExport"
DiffPrevious == ExportedObjects[1].ObjectMaterials
DiffCurrent == JsonObjectToUStruct(files[PrimaryFile].v).v.Objects[1].ObjectMaterials
DiffChangeset == JsonObjectToUStruct(files[PrimaryFile].v).v.Objects[1].MaterialChangeset

SlotsIn(slots) == {slots[i] : i \in 1..Len(slots)}
IdxIn(slots) == {slots[i].Idx : i \in 1..Len(slots)}

DiffExample ==
    /\ DiffDone
    /\ DiffPrevious = <<SlotOf(0, [Name |-> "Skin", InternalPath |-> SlashLed(<<s_M, s_Skin>>)]),
                        SlotOf(1, [Name |-> "Eyes", InternalPath |-> SlashLed(<<s_M, s_Eyes>>)])>>
    /\ DiffCurrent = <<SlotOf(0, [Name |-> "Skin", InternalPath |-> SlashLed(<<s_M, s_SkinV2>>)]),
                       SlotOf(1, [Name |-> "Teeth", InternalPath |-> SlashLed(<<s_M, s_Teeth>>)])>>

Imports == 1..Len(ret.imported)
UnchangedOf(i) == ret.data.Objects[i].MaterialChangeset.Unchanged
AddedOf(i) == ret.data.Objects[i].MaterialChangeset.Added
RemovedOf(i) == ret.data.Objects[i].MaterialChangeset.Removed
MeshOf(i) == ret.imported[i].mesh
SlotCountOf(i) == MatCount(ret.imported[i].glb)

\* the log of import i warns that index idx is out of bounds
WarnedOutOfBounds(i, idx) ==
    \E l \in 1..Len(ret.imported[i].log) :
        /\ ret.imported[i].log[l].level = "Warning"
        /\ ret.imported[i].log[l].msg = "Material slot %d out of bounds (mesh has %d slots)"
        /\ ret.imported[i].log[l].a = idx

\* the material of the slot is on the mesh of import i at the slot's index
AppliedAtIndex(i, MatSlot) ==
    /\ MatSlot.Idx + 1 \in 1..Len(MeshOf(i).materials)
    /\ MeshOf(i).materials[MatSlot.Idx + 1] = MaterialPath(MatSlot)

\* C14 as stated: restore respects bounds.  Every unchanged slot whose index
\* is out of bounds for the imported mesh (index >= n or index < 0) is
\* skipped with a warning, without a crash and without failing the import,
\* and every unchanged slot with a valid index (whose material exists) is
\* applied at its index.
C14_RestoreRespectsBounds ==
    op = "GenerateImport" =>
        /\ ~ret.crashed
        /\ (ImportDecoded /\ Len(ret.imported) = Len(ret.data.Objects)) => bIsSuccessful
        /\ \A i \in Imports : \A k \in 1..Len(UnchangedOf(i)) :
              IF UnchangedOf(i)[k].Idx >= SlotCountOf(i) \/ UnchangedOf(i)[k].Idx < 0
              THEN WarnedOutOfBounds(i, UnchangedOf(i)[k].Idx)
              ELSE MaterialLoads(UnchangedOf(i)[k]) => AppliedAtIndex(i, UnchangedOf(i)[k])

\* C14, what the code does: an unchanged slot whose index is at or above the
\* slot count is skipped with a warning and the import goes on; a slot with
\* a valid index whose material exists is applied at its index.  A negative
\* index is not checked: no warning is written for it, and the import pass
\* stops in the array access when the mesh is a skeletal mesh.
C14_UpperBoundRespected ==
    op = "GenerateImport" =>
        /\ (ImportDecoded /\ ~ret.crashed /\ Len(ret.imported) = Len(ret.data.Objects))
              => bIsSuccessful
        /\ \A i \in Imports : \A k \in 1..Len(UnchangedOf(i)) :
              /\ UnchangedOf(i)[k].Idx >= SlotCountOf(i)
                    => WarnedOutOfBounds(i, UnchangedOf(i)[k].Idx)
              /\ (UnchangedOf(i)[k].Idx \in 0..(SlotCountOf(i) - 1)
                     /\ MaterialLoads(UnchangedOf(i)[k]))
                    => AppliedAtIndex(i, UnchangedOf(i)[k])
              /\ UnchangedOf(i)[k].Idx < 0
                    => /\ ~WarnedOutOfBounds(i, UnchangedOf(i)[k].Idx)
                       /\ ret.imported[i].glb.class # "SkeletalMesh"
        /\ ret.fatal = "GetMaterials"
              => \E k \in 1..Len(UnchangedOf(Len(ret.imported) + 1)) :
                    UnchangedOf(Len(ret.imported) + 1)[k].Idx < 0

\* unchanged slots 5 and 0 restored onto a mesh with 3 slots: slot 5 is
\* skipped with the warning, slot 0 is applied, the import succeeds
C14_Witness ==
    /\ op = "GenerateImport"
    /\ bIsSuccessful
    /\ Len(ret.imported) >= 1
    /\ ret.imported[1].glb.slots = 3
    /\ UnchangedOf(1) = <<slot_Far, slot_Skin>>
    /\ WarnedOutOfBounds(1, 5)
    /\ AppliedAtIndex(1, slot_Skin)

ReportedAdded(i, MatSlot) ==
    \E l \in 1..Len(ret.imported[i].log) :
        /\ ret.imported[i].log[l].msg =
              "New material slot added in Blender: %s at slot %d (assign material in Unreal)"
        /\ ret.imported[i].log[l].Name = MatSlot.Name
        /\ ret.imported[i].log[l].a = MatSlot.Idx

\* C16 as stated: on reimport a material slot added on the Blender side is
\* assigned the default WorldGridMaterial.
C16_AddedGetWorldGridMaterial ==
    op = "GenerateImport" =>
        \A i \in Imports : \A a \in 1..Len(AddedOf(i)) :
            AddedOf(i)[a].Idx + 1 \in 1..Len(MeshOf(i).materials)
               => MeshOf(i).materials[AddedOf(i)[a].Idx + 1] = s_WorldGridMaterial

\* C16, what the code does: GenerateImport writes a log line for every added
\* slot, asking for the material to be assigned in Unreal, and assigns
\* nothing: the slot holds the WorldGridMaterial only if the importer left
\* it there.
C16_AddedOnlyReported ==
    op = "GenerateImport" =>
        \A i \in Imports : \A a \in 1..Len(AddedOf(i)) :
            /\ ReportedAdded(i, AddedOf(i)[a])
            /\ (AddedOf(i)[a].Idx + 1 \in 1..Len(MeshOf(i).materials)
                  /\ MeshOf(i).materials[AddedOf(i)[a].Idx + 1] = s_WorldGridMaterial)
                  => \/ ret.imported[i].glb.fill = s_WorldGridMaterial
                     \/ \E u \in 1..Len(UnchangedOf(i)) :
                           UnchangedOf(i)[u].Idx = AddedOf(i)[a].Idx

\* a static mesh with three slots whose slot 1 is listed as added: the slot
\* holds the material the importer created from the file
C16_Witness ==
    /\ op = "GenerateImport"
    /\ Len(ret.imported) >= 1
    /\ ret.imported[1].glb.slots = 3
    /\ AddedOf(1) = <<slot_New>>
    /\ ReportedAdded(1, slot_New)
    /\ MeshOf(1).materials[2] = SlashLed(<<s_Game, s_A, s_Mat>>)

\* the morph target names recorded for record i, the names the importer
\* gave and the names after the import
RecordedNames(i) == ret.data.Objects[i].MorphTargets
SkeletalImport(i) ==
    /\ FStringEq(ret.data.Objects[i].StringType, s_SkeletalMesh)
    /\ ret.imported[i].glb.class = "SkeletalMesh"

MorphOrderKept(i) ==
    /\ Len(MeshOf(i).morphs) = Len(ret.imported[i].glb.morphs)
    /\ \A k \in 1..Len(MeshOf(i).morphs) :
          IF k <= Len(RecordedNames(i))
          THEN FStringEq(MeshOf(i).morphs[k], RecordedNames(i)[k])
          ELSE MeshOf(i).morphs[k] = ret.imported[i].glb.morphs[k]

\* C17 as stated: after the import of a SkeletalMesh record with recorded
\* names N onto a mesh with morph targets M, morph target i is named N[i]
\* for every i < min(|N|, |M|), and the morph targets from |N| on keep the
\* names the import gave them.
C17_MorphOrderPreserved ==
    op = "GenerateImport" =>
        /\ ret.fatal # "Rename"
        /\ \A i \in Imports : SkeletalImport(i) => MorphOrderKept(i)

\* C17, what the code does: the order is restored whenever the renaming
\* loop runs to its end.  The loop stops with the engine's fatal error when
\* a recorded name it is about to give is still the name of another morph
\* target of the mesh.
C17_MorphOrderUnlessCollision ==
    op = "GenerateImport" =>
        /\ \A i \in Imports : SkeletalImport(i) => MorphOrderKept(i)
        /\ ret.fatal = "Rename"
              => \E g \in GlbMeshes :
                    /\ g.class = "SkeletalMesh"
                    /\ \E k, j \in 1..Len(g.morphs) :
                          /\ k # j /\ k <= Len(RecordedNames(Len(ret.imported) + 1))
                          /\ FStringEq(g.morphs[j], RecordedNames(Len(ret.imported) + 1)[k])

\* one recorded name, two imported morph targets: the first is renamed, the
\* second keeps the name the import gave it
C17_Witness ==
    /\ op = "GenerateImport"
    /\ Len(ret.imported) >= 1
    /\ SkeletalImport(1)
    /\ RecordedNames(1) = <<s_Smile>>
    /\ MeshOf(1).morphs = <<s_Smile, s_m1>>

(***************************************************************************)
(* The skeleton conflict resolver.  BridgeManager.h declares               *)
(* FSkeletonImportResult, AnalyzeSkeletalMeshImport,                        *)
(* PromptUserForSkeletonRetarget and RetargetSkeletalMeshToSkeleton; what   *)
(* they do is taken from the description of the resolver's state machine.  *)
(* In this part the content library maps an object to its class, its path  *)
(* and, for a skeleton, its bones; a redirector is what the editor leaves  *)
(* at the old path of an asset that was moved.                             *)
(***************************************************************************)
s_Ph == <<"P","h">>
s_Old == <<"O","l","d">>

p_Mesh == SlashLed(<<s_Game, s_A, s_Hero>>)
p_GenSkeleton == SlashLed(<<s_Game, s_A, s_Sk>>)
p_SharedSkeleton == SlashLed(<<s_Game, s_B, s_Sk>>)
p_GenPhysics == SlashLed(<<s_Game, s_A, s_Ph>>)
p_SharedPhysics == SlashLed(<<s_Game, s_B, s_Ph>>)
p_Missing == SlashLed(<<s_Game, s_B, s_Foo>>)

SkeletonAsset(path, bones) ==
    [class |-> "Skeleton", path |-> path, bones |-> bones, target |-> NullPtr]
PhysicsAssetAt(path) ==
    [class |-> "PhysicsAsset", path |-> path, bones |-> {}, target |-> NullPtr]
Redirector(path, target) ==
    [class |-> "Redirector", path |-> path, bones |-> {}, target |-> target]

MeshBoneSets == {{"root"}, {"root", "arm"}}
SharedBones == {"root", "leg"}

SkeletonLibrary(meshBones) ==
    [id \in {"GenSkeleton", "SharedSkeleton", "GenPhysics", "SharedPhysics"} |->
        CASE id = "GenSkeleton" -> SkeletonAsset(p_GenSkeleton, meshBones)
          [] id = "SharedSkeleton" -> SkeletonAsset(p_SharedSkeleton, SharedBones)
          [] id = "GenPhysics" -> PhysicsAssetAt(p_GenPhysics)
          [] id = "SharedPhysics" -> PhysicsAssetAt(p_SharedPhysics)]

\* the skeletonReference a manifest record can carry
IntendedPaths ==
    {<<>>, p_SharedSkeleton, p_GenSkeleton, p_Missing, p_SharedPhysics}

\* the objects registered under a path
FindObject(lib, path) == {id \in DOMAIN lib : FStringEq(lib[id].path, path)}

\* the object a path resolves to, through a redirector if one sits there
LoadObject(lib, path) ==
    IF path = <<>> \/ FindObject(lib, path) = {}
    THEN NullPtr
    ELSE IF lib[CHOOSE id \in FindObject(lib, path) : TRUE].class = "Redirector"
         THEN lib[CHOOSE id \in FindObject(lib, path) : TRUE].target
         ELSE CHOOSE id \in FindObject(lib, path) : TRUE

\* the intended skeleton, or NullPtr when the path does not resolve to one
IntendedSkeleton(lib, InIntendedSkeletonPath) ==
    IF LoadObject(lib, InIntendedSkeletonPath) # NullPtr
       /\ lib[LoadObject(lib, InIntendedSkeletonPath)].class = "Skeleton"
    THEN LoadObject(lib, InIntendedSkeletonPath)
    ELSE NullPtr

\* the asset resides at or below the folder of the mesh
IsAtOrBelow(path, folder) == StartsWith(path, folder \o s_Slash)

\* mutant of SkeletonConflicts: the skeleton of a freshly imported mesh always
\* counts as generated
SkeletonConflicts_AlwaysGenerated(lib, InImportedMesh, InIntendedSkeletonPath) ==
    InImportedMesh.Skeleton # NullPtr

\* the mesh's skeleton is not the intended one; an intended skeleton that
\* cannot be resolved makes the mesh's skeleton count as generated
SkeletonConflicts(lib, InImportedMesh, InIntendedSkeletonPath) ==
    /\ InImportedMesh.Skeleton # NullPtr
    /\ IntendedSkeleton(lib, InIntendedSkeletonPath) # InImportedMesh.Skeleton

PhysicsAssetGenerated(lib, InImportedMesh) ==
    /\ InImportedMesh.PhysicsAsset # NullPtr
    /\ IsAtOrBelow(lib[InImportedMesh.PhysicsAsset].path, GetPath(InImportedMesh.path))

AnalyzeSkeletalMeshImport(lib, InImportedMesh, InIntendedSkeletonPath) ==
    IF SkeletonConflicts(lib, InImportedMesh, InIntendedSkeletonPath)
    THEN [bNewSkeletonGenerated |-> TRUE,
          bNewPhysicsAssetGenerated |-> PhysicsAssetGenerated(lib, InImportedMesh),
          IntendedSkeletonPath |-> InIntendedSkeletonPath,
          GeneratedSkeletonPath |-> lib[InImportedMesh.Skeleton].path,
          GeneratedPhysicsAssetPath |->
              IF PhysicsAssetGenerated(lib, InImportedMesh)
              THEN lib[InImportedMesh.PhysicsAsset].path ELSE <<>>,
          ImportedMesh |-> InImportedMesh.ptr]
    ELSE [DefaultSkeletonImportResult EXCEPT
             !.IntendedSkeletonPath = InIntendedSkeletonPath,
             !.ImportedMesh = InImportedMesh.ptr]

\* the resolver enters a state of its state machine
Enter(r, s) == [r EXCEPT !.state = s, !.trace = Append(@, s)]

\* what the caller concludes from the analysis
Classified(InImportResult) ==
    IF InImportResult.bNewSkeletonGenerated THEN "ConflictDetected" ELSE "NoConflict"

\* the dialog is shown for a conflict only; answer is what the user clicks
PromptUserForSkeletonRetarget(InImportResult, answer) ==
    InImportResult.bNewSkeletonGenerated /\ answer

\* mutant of CanRetarget: a mesh without a conflict is retargeted as well
CanRetarget_WithoutConflict(r) ==
    r.state \in {"RetargetRequested", "NoConflict"} /\ r.errors = {}

CanRetarget(r) == r.state = "RetargetRequested" /\ r.errors = {}

ResolverError(error, path) == [error |-> error, path |-> path]

\* the first step of RetargetSkeletalMeshToSkeleton: the bones of the mesh
\* that the intended skeleton lacks are merged into it, the mesh is bound to
\* it and the physics asset reference is cleared
MergedLibrary(lib, r) ==
    [lib EXCEPT ![IntendedSkeleton(lib, r.result.IntendedSkeletonPath)].bones =
                    @ \cup r.mesh.RefSkeleton]

Rebound(lib, r, bDeleteGeneratedAssets) ==
    Enter([r EXCEPT !.mesh.Skeleton = IntendedSkeleton(lib, r.result.IntendedSkeletonPath),
                    !.mesh.PhysicsAsset = NullPtr,
                    !.bDeleteGeneratedAssets = bDeleteGeneratedAssets],
          "Retargeted")

RetargetSkeletalMeshToSkeleton(lib, r, bDeleteGeneratedAssets) ==
    IF r.result.IntendedSkeletonPath = <<>>
    THEN [ok |-> FALSE, lib |-> lib,
          r |-> [r EXCEPT !.errors = {ResolverError("NoIntendedSkeleton", <<>>)}]]
    ELSE IF IntendedSkeleton(lib, r.result.IntendedSkeletonPath) = NullPtr
    THEN [ok |-> FALSE, lib |-> lib,
          r |-> [r EXCEPT !.errors = {ResolverError("IntendedSkeletonUnresolvable",
                                                    r.result.IntendedSkeletonPath)}]]
    ELSE [ok |-> TRUE, lib |-> MergedLibrary(lib, r),
          r |-> Rebound(lib, r, bDeleteGeneratedAssets)]

\* the paths recorded as generated by the analysis
RecordedGenerated(InImportResult) ==
    (IF InImportResult.bNewSkeletonGenerated
     THEN {InImportResult.GeneratedSkeletonPath} ELSE {})
    \cup (IF InImportResult.bNewPhysicsAssetGenerated
          THEN {InImportResult.GeneratedPhysicsAssetPath} ELSE {})

\* mutant of Deletable: whatever a recorded path resolves to is deleted
Deletable_Unchecked(lib, InImportResult) ==
    {id \in DOMAIN lib : \E path \in RecordedGenerated(InImportResult) :
                            id = LoadObject(lib, path)}

\* the assets the second step may delete: what a recorded path resolves to,
\* provided its own path is exactly the recorded one
Deletable(lib, InImportResult) ==
    {id \in DOMAIN lib : \E path \in RecordedGenerated(InImportResult) :
                            id = LoadObject(lib, path) /\ lib[id].path = path}

\* mutant of DeleteGeneratedAssets: a failed deletion rolls the reassignment back
DeleteGeneratedAssets_RollsBack(lib, r, failing) ==
    IF r.bDeleteGeneratedAssets
    THEN [lib |-> [id \in DOMAIN lib \ (Deletable(lib, r.result) \ failing) |-> lib[id]],
          r |-> Enter([r EXCEPT !.deleted = {[id |-> id, path |-> lib[id].path] :
                                                id \in Deletable(lib, r.result) \ failing},
                                !.errors = {ResolverError("DeleteFailed", lib[id].path) :
                                               id \in failing},
                                !.mesh = IF failing = {} THEN @ ELSE r.AtImport],
                      "AssetsDeleted")]
    ELSE [lib |-> lib, r |-> Enter(r, "AssetsPreserved")]

\* the second step of RetargetSkeletalMeshToSkeleton; failing are the assets
\* whose deletion fails
DeleteGeneratedAssets(lib, r, failing) ==
    IF r.bDeleteGeneratedAssets
    THEN [lib |-> [id \in DOMAIN lib \ (Deletable(lib, r.result) \ failing) |-> lib[id]],
          r |-> Enter([r EXCEPT !.deleted = {[id |-> id, path |-> lib[id].path] :
                                                id \in Deletable(lib, r.result) \ failing},
                                !.errors = {ResolverError("DeleteFailed", lib[id].path) :
                                               id \in failing}],
                      "AssetsDeleted")]
    ELSE [lib |-> lib, r |-> Enter(r, "AssetsPreserved")]

\* where the editor moves an asset to
MovedPath(path) == SlashLed(<<s_Game, s_Old>>) \o s_Slash \o GetCleanFilename(path)

DoAnalyzeSkeletalMeshImport ==
    /\ resolver.state = "Imported"
    /\ resolver' = Enter([resolver EXCEPT !.result =
                             AnalyzeSkeletalMeshImport(assets, resolver.mesh,
                                                       resolver.InSkeletonPath)],
                         "Analyzed")
    /\ op' = "AnalyzeSkeletalMeshImport"
    /\ UNCHANGED <<normVars, files, geometry, bIsSuccessful, OutMessage, ret, assets, session>>

ClassifyAnalysis ==
    /\ resolver.state = "Analyzed"
    /\ resolver' = Enter(resolver, Classified(resolver.result))
    /\ UNCHANGED <<normVars, files, geometry, op, bIsSuccessful, OutMessage, ret, assets, session>>

DoPromptUserForSkeletonRetarget ==
    /\ resolver.state = "ConflictDetected"
    /\ ~resolver.prompted
    /\ \E answer \in BOOLEAN :
          resolver' = IF PromptUserForSkeletonRetarget(resolver.result, answer)
                      THEN Enter([resolver EXCEPT !.prompted = TRUE], "RetargetRequested")
                      ELSE [resolver EXCEPT !.prompted = TRUE]
    /\ op' = "PromptUserForSkeletonRetarget"
    /\ UNCHANGED <<normVars, files, geometry, bIsSuccessful, OutMessage, ret, assets, session>>

DoRetargetSkeletalMeshToSkeleton ==
    /\ CanRetarget(resolver)
    /\ \E bDeleteGeneratedAssets \in BOOLEAN :
          /\ resolver' = RetargetSkeletalMeshToSkeleton(assets, resolver,
                                                        bDeleteGeneratedAssets).r
          /\ assets' = RetargetSkeletalMeshToSkeleton(assets, resolver,
                                                      bDeleteGeneratedAssets).lib
          /\ bIsSuccessful' = RetargetSkeletalMeshToSkeleton(assets, resolver,
                                                             bDeleteGeneratedAssets).ok
    /\ OutMessage' = Message("RetargetSkeletalMeshToSkeleton",
                             resolver.result.IntendedSkeletonPath, NoFile, 0)
    /\ op' = "RetargetSkeletalMeshToSkeleton"
    /\ UNCHANGED <<normVars, files, geometry, ret, session>>

DoDeleteGeneratedAssets ==
    /\ resolver.state = "Retargeted"
    /\ \E failing \in SUBSET Deletable(assets, resolver.result) :
          /\ resolver.bDeleteGeneratedAssets \/ failing = {}
          /\ resolver' = DeleteGeneratedAssets(assets, resolver, failing).r
          /\ assets' = DeleteGeneratedAssets(assets, resolver, failing).lib
    /\ bIsSuccessful' = TRUE
    /\ UNCHANGED <<normVars, files, geometry, op, OutMessage, ret, session>>

\* the user moves an asset in the editor while the resolver waits: the asset
\* gets a new path and a redirector stays at the old one
EditorMovesAsset ==
    /\ resolver.state \in {"ConflictDetected", "RetargetRequested", "Retargeted"}
    /\ "Redirector" \notin DOMAIN assets
    /\ \E moved \in DOMAIN assets :
          assets' = [id \in DOMAIN assets \cup {"Redirector"} |->
                        IF id = "Redirector" THEN Redirector(assets[moved].path, moved)
                        ELSE IF id = moved
                             THEN [assets[id] EXCEPT !.path = MovedPath(@)]
                             ELSE assets[id]]
    /\ UNCHANGED <<normVars, files, geometry, op, bIsSuccessful, OutMessage, ret, resolver, session>>

SkeletonInit ==
    /\ NormIdle
    /\ files = [f \in FileNames |-> NoFile]
    /\ geometry = {}
    /\ op = "none"
    /\ bIsSuccessful = FALSE
    /\ OutMessage = NoMessage
    /\ ret = NoReturn
    /\ session = NoSession
    /\ \E meshBones \in MeshBoneSets, Skeleton \in {"GenSkeleton", "SharedSkeleton"},
          PhysicsAsset \in {NullPtr, "GenPhysics", "SharedPhysics"},
          InSkeletonPath \in IntendedPaths :
          /\ assets = SkeletonLibrary(meshBones)
          /\ resolver = [NoResolver EXCEPT
                            !.state = "Imported",
                            !.trace = <<"Imported">>,
                            !.mesh = [ptr |-> "Hero", path |-> p_Mesh,
                                      Skeleton |-> Skeleton,
                                      PhysicsAsset |-> PhysicsAsset,
                                      RefSkeleton |-> meshBones],
                            !.AtImport = [ptr |-> "Hero", path |-> p_Mesh,
                                          Skeleton |-> Skeleton,
                                          PhysicsAsset |-> PhysicsAsset,
                                          RefSkeleton |-> meshBones],
                            !.InSkeletonPath = InSkeletonPath]

SkeletonNext ==
    \/ DoAnalyzeSkeletalMeshImport
    \/ ClassifyAnalysis
    \/ DoPromptUserForSkeletonRetarget
    \/ DoRetargetSkeletalMeshToSkeleton
    \/ DoDeleteGeneratedAssets
    \/ EditorMovesAsset

SpecSkeleton == SkeletonInit /\ [][SkeletonNext]_vars

(***************************************************************************)
(* Claims about the skeleton conflict resolver (SpecSkeleton).             *)
(***************************************************************************)
ResolverStarted == resolver.state \notin {"none", "Imported"}

\* the skeleton the mesh had when it was imported is the very asset the
\* recorded skeleton reference resolves to
SameSkeletonAsIntended ==
    LoadObject(assets, resolver.InSkeletonPath) = resolver.AtImport.Skeleton

Visited(s) == \E i \in 1..Len(resolver.trace) : resolver.trace[i] = s

\* C18: when the skeleton of the imported mesh is the same asset as the
\* intended skeleton, the analysis yields bNewSkeletonGenerated = false, the
\* resolver ends in NoConflict, and no retarget is offered or performed for
\* that mesh.
C18_SameSkeletonNoConflict ==
    (ResolverStarted /\ SameSkeletonAsIntended) =>
        /\ ~resolver.result.bNewSkeletonGenerated
        /\ resolver.state \in {"Analyzed", "NoConflict"}
        /\ ~resolver.prompted
        /\ \A answer \in BOOLEAN :
              ~PromptUserForSkeletonRetarget(resolver.result, answer)
        /\ ~CanRetarget(resolver)
        /\ ~Visited("RetargetRequested") /\ ~Visited("Retargeted")
        /\ resolver.mesh = resolver.AtImport

C18_Witness ==
    /\ resolver.state = "NoConflict"
    /\ SameSkeletonAsIntended
    /\ resolver.AtImport.Skeleton = "SharedSkeleton"

InitialAssets == {"GenSkeleton", "SharedSkeleton", "GenPhysics", "SharedPhysics"}

\* C19: a retarget with deletion enabled never deletes a skeleton or physics
\* asset whose resolved path differs from the exact path recorded as generated
\* by the analysis, even when bNewSkeletonGenerated is true; without the
\* opt-in no asset is deleted at all.
C19_SafeDeletion ==
    resolver.state # "none" =>
        /\ \A d \in resolver.deleted :
              d.path \in RecordedGenerated(resolver.result)
        /\ InitialAssets \ DOMAIN assets = {d.id : d \in resolver.deleted}
        /\ ~resolver.bDeleteGeneratedAssets => InitialAssets \subseteq DOMAIN assets

\* deletion was opted in and a skeleton was recorded as generated, but the
\* recorded path now resolves to an asset that lives elsewhere: it survives
C19_Witness ==
    /\ resolver.state = "AssetsDeleted"
    /\ resolver.result.bNewSkeletonGenerated
    /\ LoadObject(assets, resolver.result.GeneratedSkeletonPath) # NullPtr
    /\ assets[LoadObject(assets, resolver.result.GeneratedSkeletonPath)].path
          # resolver.result.GeneratedSkeletonPath
    /\ resolver.deleted # {}

AllowedTransitions ==
    {<<"Imported", "Analyzed">>, <<"Analyzed", "NoConflict">>,
     <<"Analyzed", "ConflictDetected">>, <<"ConflictDetected", "RetargetRequested">>,
     <<"RetargetRequested", "Retargeted">>, <<"Retargeted", "AssetsPreserved">>,
     <<"Retargeted", "AssetsDeleted">>}

TerminalStates == {"NoConflict", "AssetsPreserved", "AssetsDeleted"}

ResolverStep ==
    /\ resolver'.state # resolver.state =>
          <<resolver.state, resolver'.state>> \in AllowedTransitions
    /\ resolver'.state = "Retargeted" => Visited("ConflictDetected")
    /\ resolver'.state = "AssetsDeleted" =>
          resolver.state \in {"Retargeted", "AssetsDeleted"}
    /\ resolver.state \in TerminalStates => resolver'.state = resolver.state

\* C20: the resolver of a mesh moves only along Imported -> Analyzed ->
\* {NoConflict | ConflictDetected} and ConflictDetected -> RetargetRequested ->
\* Retargeted -> {AssetsPreserved | AssetsDeleted}: Retargeted is never reached
\* without ConflictDetected, AssetsDeleted never before Retargeted, and a
\* terminal state has no outgoing transition.
C20_OnlyListedTransitions == [][ResolverStep]_vars

C20_Witness ==
    /\ resolver.state = "AssetsDeleted"
    /\ resolver.trace = <<"Imported", "Analyzed", "ConflictDetected",
                          "RetargetRequested", "Retargeted", "AssetsDeleted">>

DeleteFailures == {e \in resolver.errors : e.error = "DeleteFailed"}

\* C21: reassignment and deletion are independent sequential steps: when the
\* deletion of a generated asset fails after the mesh was rebound, the mesh
\* stays bound to the intended skeleton with its physics asset reference
\* cleared, the failure is reported with the asset's path, the asset is still
\* there, and the operation is not failed by it.
C21_DeleteFailureKeepsRebinding ==
    DeleteFailures # {} =>
        /\ resolver.state = "AssetsDeleted"
        /\ resolver.mesh.Skeleton # NullPtr
        /\ resolver.mesh.Skeleton =
              IntendedSkeleton(assets, resolver.result.IntendedSkeletonPath)
        /\ resolver.mesh.PhysicsAsset = NullPtr
        /\ \A e \in DeleteFailures :
              /\ e.path \in RecordedGenerated(resolver.result)
              /\ LoadObject(assets, e.path) # NullPtr
        /\ bIsSuccessful

C21_Witness ==
    /\ DeleteFailures # {}
    /\ resolver.AtImport.Skeleton = "GenSkeleton"
    /\ resolver.mesh.Skeleton = "SharedSkeleton"
    /\ resolver.deleted # {}

(***************************************************************************)
(* Claims about the import pass as a whole (SpecImport).                   *)
(***************************************************************************)
\* the pass came back to its caller (it did not end in a fatal error)
ImportReturned == ImportDecoded /\ ret.fatal = ""

ProcessTaskFailures ==
    {"Could not process task", "Import partially successful but returned invalid object"}

\* C22: import is fail-fast per manifest record: once the import of a record
\* fails no later record is imported or reconciled, the pass returns failure
\* with the message of that import, and it returns success only if every
\* record was imported.
C22_FailFast ==
    ImportReturned =>
        /\ bIsSuccessful <=> Len(ret.imported) = Len(ret.data.Objects)
        /\ bIsSuccessful => OutMessage.msg = "Operation was successful"
        /\ ~bIsSuccessful => OutMessage.msg \in ProcessTaskFailures
        /\ \A i \in 1..Len(ret.imported) :
              ret.imported[i].source = ret.data.Objects[i].ExportLocation
        /\ DOMAIN assets = {ret.imported[i].package : i \in 1..Len(ret.imported)}

\* the first of two records fails: the second is never imported
C22_Witness ==
    /\ ImportReturned
    /\ ~bIsSuccessful
    /\ Len(ret.data.Objects) = 2
    /\ ret.imported = <<>>
    /\ assets = <<>>

\* the position of a step among the steps run for the i-th record, 0 if it
\* was not run
StepAt(i, step) ==
    IF \E k \in 1..Len(ret.imported[i].steps) : ret.imported[i].steps[k] = step
    THEN CHOOSE k \in 1..Len(ret.imported[i].steps) : ret.imported[i].steps[k] = step
    ELSE 0

Ran(i, step) == StepAt(i, step) > 0

\* C23 as stated: for every record of an import pass the steps are manifest
\* read, path normalization, external import, asset relocation, skeleton
\* conflict analysis, material restore, in that order; the material restore of
\* a record never runs before its relocation and its skeleton analysis.
C23_StepOrder ==
    ImportDecoded =>
        \A i \in Imports :
            /\ Ran(i, "NormalizePath")
            /\ StepAt(i, "NormalizePath") < StepAt(i, "ImportAsset")
            /\ StepAt(i, "ImportAsset") < StepAt(i, "RelocateImportedAsset")
            /\ StepAt(i, "RelocateImportedAsset") < StepAt(i, "AnalyzeSkeletalMeshImport")
            /\ StepAt(i, "AnalyzeSkeletalMeshImport") < StepAt(i, "RestoreMaterials")

\* C23, what GenerateImport does: after the manifest read, each record is
\* normalized, imported, has its morph targets renamed (skeletal meshes with
\* recorded names only) and its materials restored, in that order; neither a
\* relocation nor a skeleton analysis is part of the pass.
C23_StepOrderOfPass ==
    ImportDecoded =>
        \A i \in Imports :
            /\ Ran(i, "NormalizePath")
            /\ StepAt(i, "NormalizePath") < StepAt(i, "ImportAsset")
            /\ StepAt(i, "ImportAsset") < StepAt(i, "RestoreMaterials")
            /\ Ran(i, "RenameMorphTargets") =>
                  /\ StepAt(i, "ImportAsset") < StepAt(i, "RenameMorphTargets")
                  /\ StepAt(i, "RenameMorphTargets") < StepAt(i, "RestoreMaterials")
            /\ ~Ran(i, "RelocateImportedAsset")
            /\ ~Ran(i, "AnalyzeSkeletalMeshImport")
            /\ resolver = NoResolver
    /\ session = NoSession

\* a skeletal mesh with a skeleton reference went through the whole pass
C23_Witness ==
    /\ ImportDecoded
    /\ \E i \in Imports :
          /\ ret.imported[i].glb.class = "SkeletalMesh"
          /\ ret.data.Objects[i].Skeleton # <<>>
          /\ Ran(i, "RenameMorphTargets")
          /\ Ran(i, "RestoreMaterials")

(***************************************************************************)
(* An editor session: export and import passes in any order, over a bridge *)
(* directory whose from-blender.json and geometry files the other          *)
(* application wrote before.  What the external importer makes of a        *)
(* geometry file is fixed by the file, so it is drawn once per session.    *)
(***************************************************************************)
MaxRuns == 2

ImportFailed == [error |-> "Could not process task", glb |-> NoGlb]

PassOutcomes ==
    {ImportFailed,
     [error |-> "", glb |-> [class |-> "StaticMesh", slots |-> 1,
                             fill |-> SlashLed(<<s_Game, s_A, s_Mat>>), morphs |-> <<>>]],
     [error |-> "", glb |-> [class |-> "SkeletalMesh", slots |-> 2,
                             fill |-> s_WorldGridMaterial, morphs |-> <<s_m0, s_m1>>]]}

Importers == [{rec_Hero.ExportLocation, rec_Bar.ExportLocation} -> PassOutcomes]

\* the outcome of the external import for each record of the manifest
OutcomesOf(importer, Objects) ==
    [i \in 1..Len(Objects) |->
        IF Objects[i].ExportLocation \in DOMAIN importer
        THEN importer[Objects[i].ExportLocation]
        ELSE ImportFailed]

SessionContents ==
    {NoFile, Garbage,
     JsonFile(UStructToJsonObject([Operation |-> "BlenderExport",
                                   Objects |-> <<rec_Hero, rec_Bar>>])),
     JsonFile(UStructToJsonObject([Operation |-> "BlenderExport",
                                   Objects |-> <<rec_Morph1>>]))}

PassRecord(name, imported, lib, ok, msg, fatal) ==
    [op |-> name, before |-> files, geometry |-> geometry, imported |-> imported,
     assets |-> lib, ok |-> ok, msg |-> msg, fatal |-> fatal]

SessionOpen == Len(session.passes) < MaxRuns /\ ret.fatal = ""

ExportPass ==
    /\ SessionOpen
    /\ StartExportWith({<<>>, <<actor_Hero1>>}, {<<>>}, {{}}, {{}})
    /\ session' = [session EXCEPT !.passes =
                      Append(@, PassRecord("StartExport", <<>>, assets, bIsSuccessful',
                                           OutMessage'.msg, ""))]
    /\ UNCHANGED <<normVars, assets, resolver>>

ImportPass ==
    /\ SessionOpen
    /\ GenerateImportWith({OutcomesOf(session.importer,
                                      ReadBridgeExportFile(TRUE).data.Objects)})
    /\ session' = [session EXCEPT !.passes =
                      Append(@, PassRecord("GenerateImport", ret'.imported, assets',
                                           bIsSuccessful', OutMessage'.msg, ret'.fatal))]
    /\ UNCHANGED <<normVars, files, geometry, resolver>>

SessionInit ==
    /\ NormIdle
    /\ files \in [FileNames -> SessionContents \cup LegacyContents]
    /\ files[PrimaryFile] \in SessionContents
    /\ files[LegacyFile] \in LegacyContents
    /\ files[ExportFile] = NoFile
    /\ geometry = {}
    /\ op = "none"
    /\ bIsSuccessful = FALSE
    /\ OutMessage = NoMessage
    /\ ret = NoReturn
    /\ assets = <<>>
    /\ resolver = NoResolver
    /\ \E importer \in Importers : session = [passes |-> <<>>, importer |-> importer]

SessionNext == ExportPass \/ ImportPass

SpecSession == SessionInit /\ [][SessionNext]_vars

PassRan == Len(session'.passes) = Len(session.passes) + 1

ManifestStep ==
    /\ (PassRan /\ op' = "StartExport") =>
          /\ files'[PrimaryFile] = files[PrimaryFile]
          /\ files'[LegacyFile] = files[LegacyFile]
    /\ (PassRan /\ op' = "GenerateImport") =>
          /\ files' = files
          /\ ret'.path \in {PrimaryFile, LegacyFile}
          /\ ret'.path = LegacyFile => files[PrimaryFile] = NoFile

\* C24: the two directions never collide on a manifest file: over any
\* sequence of export and import passes an export changes no file but
\* from-unreal.json (it neither writes nor deletes from-blender.json or the
\* legacy file), and an import reads from-blender.json, or the legacy file
\* when that one is absent, and writes no manifest file.
C24_ManifestsNeverCollide == [][ManifestStep]_vars

\* an export that wrote its manifest was followed by an import that read the
\* other one
C24_Witness ==
    /\ Len(session.passes) = 2
    /\ session.passes[1].op = "StartExport" /\ session.passes[1].ok
    /\ session.passes[2].op = "GenerateImport" /\ session.passes[2].ok
    /\ files[ExportFile] # NoFile
    /\ files[PrimaryFile] # NoFile
    /\ Len(ret.imported) = 2

\* the pass could read the manifest file
FileWasRead(pass) ==
    pass.msg \notin {"failed to open file for reading: '%s'", "unable to read file: '%s'"}

\* passes i and i + 1 are imports of the same files, both able to read them
ImportedTwice(i) ==
    /\ i + 1 <= Len(session.passes)
    /\ FileWasRead(session.passes[i]) /\ FileWasRead(session.passes[i + 1])
    /\ session.passes[i].op = "GenerateImport"
    /\ session.passes[i + 1].op = "GenerateImport"
    /\ session.passes[i].before = session.passes[i + 1].before
    /\ session.passes[i].geometry = session.passes[i + 1].geometry
    /\ session.passes[i].fatal = ""

SameMeshes(a, b) ==
    /\ Len(a) = Len(b)
    /\ \A k \in 1..Len(a) :
          /\ a[k].package = b[k].package
          /\ a[k].mesh.morphs = b[k].mesh.morphs
          /\ a[k].mesh.materials = b[k].mesh.materials

Blocked(r, geo) ==
    {k \in 1..Len(r.collected) :
        CannotCreate(GetPath(r.collected[k].ExportLocation), r.unwritable, geo)}

FirstBlocked(r, geo) == CHOOSE k \in Blocked(r, geo) : \A j \in Blocked(r, geo) : k <= j

ExportStep == op = "none" /\ op' = "StartExport"

DirectoryStep ==
    (ExportStep /\ Blocked(ret', geometry) # {}) =>
        /\ ~bIsSuccessful'
        /\ OutMessage'.msg = "%s. The destination directory could not be created."
        /\ OutMessage'.data =
              [t |-> "path",
               p |-> GetPath(ret'.collected[FirstBlocked(ret', geometry)].ExportLocation)]
        /\ files' = files
        /\ geometry' \ geometry \subseteq
              {ret'.collected[j].ExportLocation : j \in 1..(FirstBlocked(ret', geometry) - 1)}

\* C26: when the destination directory of an export record cannot be
\* created, the export pass aborts at once: it returns failure with a message
\* naming the directory, exports no later record and does not write the
\* manifest file.
C26_DirectoryFailureAborts == [][DirectoryStep]_vars

\* the first of two records was exported, the directory of the second could
\* not be created
C26_Witness ==
    /\ op = "StartExport"
    /\ Len(ret.collected) = 2
    /\ Blocked(ret, {}) = {2}
    /\ ret.collected[1].ExportLocation \in geometry
    /\ ret.collected[2].ExportLocation \notin geometry
    /\ ~bIsSuccessful

\* the record can be exported: it is a static or skeletal mesh and its export
\* task succeeds
Exportable(r, k) ==
    /\ r.collected[k].ModelPtr # NullPtr
    /\ ClassOf(r.collected[k].ModelPtr) \in {"StaticMesh", "SkeletalMesh"}
    /\ r.collected[k].ModelPtr \notin r.failing

ExportableLocations(r) ==
    [k \in 1..Len(SelectSeq([j \in 1..Len(r.collected) |-> j],
                            LAMBDA j : Exportable(r, j))) |->
        r.collected[SelectSeq([j \in 1..Len(r.collected) |-> j],
                              LAMBDA j : Exportable(r, j))[k]].ExportLocation]

OmittingStep ==
    (ExportStep /\ ret'.collected # <<>> /\ Blocked(ret', geometry) = {} /\ ret'.saveOk) =>
        /\ bIsSuccessful'
        /\ files'[ExportFile].t = "json"
        /\ JsonObjectToUStruct(files'[ExportFile].v).ok
        /\ [k \in 1..Len(JsonObjectToUStruct(files'[ExportFile].v).v.Objects) |->
               JsonObjectToUStruct(files'[ExportFile].v).v.Objects[k].ExportLocation]
              = ExportableLocations(ret')
        /\ \A k \in 1..Len(ret'.collected) :
              Exportable(ret', k) => ret'.collected[k].ExportLocation \in geometry'
        /\ \A k \in 1..Len(ret'.collected) :
              ~Exportable(ret', k) =>
                  (ret'.collected[k].ExportLocation \in geometry'
                      => ret'.collected[k].ExportLocation \in geometry)

\* C28: every record of the manifest GenerateExport writes refers to a
\* geometry file exported in that same pass: a record that is neither a static
\* nor a skeletal mesh, or whose geometry export failed, is left out of the
\* manifest, while the other records are still exported and the manifest is
\* still written.
C28_ManifestHoldsExportedOnly == [][OmittingStep]_vars

\* two records were collected, the export of one of them failed, and the
\* manifest was written with the other one
C28_Witness ==
    /\ ExportWritten
    /\ Len(ret.collected) = 2
    /\ ret.failing # {}
    /\ Len(ExportedObjects) = 1
    /\ ExportedObjects[1].ExportLocation \in geometry

(***************************************************************************)
(* Actor replacement: UBridgeManager::ExecuteSwap and DuplicateAndSwap,    *)
(* called with out-parameters that hold what the caller left in them.      *)
(***************************************************************************)
s_Rock == <<"R","o","c","k">>
s_Door == <<"D","o","o","r">>
s_ContentDir == <<"P","/","C","o","n","t","e","n","t","/">>

\* a static mesh one of whose material slots holds no material, and a
\* blueprint
asset_Rock ==
    [ptr |-> "Rock", ObjectPath |-> ObjectPath(s_A, s_Rock), class |-> "StaticMesh",
     Materials |-> <<[MaterialSlotName |-> "Skin", MaterialInterface |-> ObjectPath(s_A, s_M)],
                     [MaterialSlotName |-> "Moss", MaterialInterface |-> <<>>]>>,
     Skeleton |-> <<>>, MorphTargets |-> <<>>]
asset_Door ==
    [ptr |-> "Door", ObjectPath |-> ObjectPath(s_A, s_Door), class |-> "Blueprint",
     Materials |-> <<>>, Skeleton |-> <<>>, MorphTargets |-> <<>>]

SwapObjects == LibraryAssets \cup {asset_Rock, asset_Door}

\* the object a handle points to
ObjectAt(ptr) == CHOOSE a \in SwapObjects : a.ptr = ptr

\* what the caller's out-parameter may hold before the call
StaleMessage == Message("left by an earlier call", "", NoFile, 0)

\* UAssetsBridgeTools::GetSystemPathAsAssetPath
GetSystemPathAsAssetPath(Path) ==
    PathAppend(s_ContentDir, RemoveAll(RemoveAll(Path, s_SlashAll), s_SlashGame))

\* Asset.GetClass() is set and a factory can create an actor from the asset
HasFactory(Asset) == Asset.class \in {"Blueprint", "StaticMesh", "SkeletalMesh"}

\* UEditorActorSubsystem::ReplaceSelectedActors: every actor selected in
\* the editor gives way to an actor of the asset at the same placement, and
\* the new actors are selected (the actor's entry keeps its name here)
ReplaceSelectedActors(selected, Asset) ==
    [i \in 1..Len(selected) |-> [selected[i] EXCEPT !.asset = Asset]]

\* ExecuteSwap's loop over ContentList
RECURSIVE SwapEach(_, _, _)
SwapEach(selected, ContentList, i) ==
    IF i > Len(ContentList) THEN selected
    ELSE SwapEach(IF HasFactory(ContentList[i])
                  THEN ReplaceSelectedActors(selected, ContentList[i])
                  ELSE selected,
                  ContentList, i + 1)

\* UBridgeManager::ExecuteSwap, selected being the editor's selection
ExecuteSwap(SelectList, ContentList, selected) ==
    IF Len(SelectList) < 1
    THEN [ok |-> FALSE, assigned |-> BothAssigned, level |-> selected, fatal |-> "",
          msg |-> Message("You must select at least 1 item in the level", "", NoFile, 0)]
    ELSE IF Len(ContentList) < 1
    THEN [ok |-> FALSE, assigned |-> BothAssigned, level |-> selected, fatal |-> "",
          msg |-> Message("You must select at least 1 from the content browser to replace the selected items with",
                          "", NoFile, 0)]
    ELSE [ok |-> TRUE, assigned |-> BothAssigned, fatal |-> "",
          level |-> SwapEach(selected, ContentList, 1),
          msg |-> Message("Operation Succeeded.", "", NoFile, 0)]

\* the object UEditorAssetLibrary::DuplicateAsset creates at TargetPath
DuplicateOf(Source, TargetPath) ==
    [Source EXCEPT !.ptr = "Dup" \o Source.ptr,
                   !.ObjectPath = TargetPath \o s_Dot \o GetCleanFilename(TargetPath)]

\* DuplicateAndSwap's loop over the static materials, up to the first slot
\* it cannot get past: "null" when the slot holds no material
\* (SrcMat.MaterialInterface->GetPathName()), "failed" when the material
\* cannot be duplicated
DuplicateMaterials(Materials, matOk) ==
    IF \A i \in 1..Len(Materials) : Materials[i].MaterialInterface # <<>> /\ matOk
    THEN "done"
    ELSE IF Materials[CHOOSE i \in 1..Len(Materials) :
                         /\ Materials[i].MaterialInterface = <<>> \/ ~matOk
                         /\ \A k \in 1..(i - 1) :
                               Materials[k].MaterialInterface # <<>> /\ matOk
                     ].MaterialInterface = <<>>
    THEN "null"
    ELSE "failed"

CannotDuplicate(SourcePackagePath) ==
    Message("Cannot duplicate: %s to %s, does it already exist?",
            <<SourcePackagePath, GetSystemPathAsAssetPath(SourcePackagePath)>>, NoFile, 0)

\* the record DuplicateAndSwap returns for the duplicate
OutAssetOf(DuplicateMesh) ==
    [DefaultExportAsset EXCEPT
        !.ModelPtr = DuplicateMesh.ptr,
        !.InternalPath = RemoveAll(GetPathWithoutExt(DuplicateMesh.ObjectPath), s_SlashGame),
        !.ShortName = GetPathWithoutExt(GetCleanFilename(GetPathWithoutExt(DuplicateMesh.ObjectPath)))]

\* UBridgeManager::DuplicateAndSwap: dupOk and matOk say whether
\* DuplicateAsset succeeds for the mesh and for its materials, selected is
\* the editor's selection (GetWorldSelection).  ok and msg are read only
\* when the call assigned them.
DuplicateAndSwap(InAsset, dupOk, matOk, selected) ==
    IF InAsset.ModelPtr = NullPtr \/ ObjectAt(InAsset.ModelPtr).class # "StaticMesh"
    THEN [ok |-> FALSE, msg |-> NoMessage, assigned |-> {}, fatal |-> "",
          level |-> selected, OutAsset |-> DefaultExportAsset, created |-> <<>>]
    ELSE IF ~dupOk
    THEN [ok |-> FALSE, assigned |-> BothAssigned, fatal |-> "",
          msg |-> CannotDuplicate(GetPathWithoutExt(ObjectAt(InAsset.ModelPtr).ObjectPath)),
          level |-> selected, OutAsset |-> DefaultExportAsset, created |-> <<>>]
    ELSE IF DuplicateMaterials(ObjectAt(InAsset.ModelPtr).Materials, matOk) = "null"
    THEN [ok |-> FALSE, msg |-> NoMessage, assigned |-> {}, fatal |-> "null dereference",
          level |-> selected, OutAsset |-> DefaultExportAsset,
          created |-> <<DuplicateOf(ObjectAt(InAsset.ModelPtr),
                            GetSystemPathAsAssetPath(
                                GetPathWithoutExt(ObjectAt(InAsset.ModelPtr).ObjectPath)))>>]
    ELSE IF DuplicateMaterials(ObjectAt(InAsset.ModelPtr).Materials, matOk) = "failed"
    THEN [ok |-> FALSE, assigned |-> BothAssigned, fatal |-> "",
          msg |-> CannotDuplicate(GetPathWithoutExt(ObjectAt(InAsset.ModelPtr).ObjectPath)),
          level |-> selected, OutAsset |-> DefaultExportAsset,
          created |-> <<DuplicateOf(ObjectAt(InAsset.ModelPtr),
                            GetSystemPathAsAssetPath(
                                GetPathWithoutExt(ObjectAt(InAsset.ModelPtr).ObjectPath)))>>]
    ELSE ExecuteSwap(selected,
                     <<DuplicateOf(ObjectAt(InAsset.ModelPtr),
                           GetSystemPathAsAssetPath(
                               GetPathWithoutExt(ObjectAt(InAsset.ModelPtr).ObjectPath)))>>,
                     selected)
         @@ [OutAsset |-> OutAssetOf(DuplicateOf(ObjectAt(InAsset.ModelPtr),
                              GetSystemPathAsAssetPath(
                                  GetPathWithoutExt(ObjectAt(InAsset.ModelPtr).ObjectPath)))),
             created |-> <<DuplicateOf(ObjectAt(InAsset.ModelPtr),
                               GetSystemPathAsAssetPath(
                                   GetPathWithoutExt(ObjectAt(InAsset.ModelPtr).ObjectPath)))>>]

\* the out-parameters after a call: what the call assigned, else what the
\* caller had left in them
SwapResult(name, r) ==
    /\ op' = name
    /\ bIsSuccessful' = IF "bIsSuccessful" \in r.assigned THEN r.ok ELSE bIsSuccessful
    /\ OutMessage' = IF "OutMessage" \in r.assigned THEN r.msg ELSE OutMessage

\* a call of ExecuteSwap with any lists; the editor's selection is the
\* list handed in or a part of it
DoExecuteSwap ==
    /\ op = "none"
    /\ \E SelectList \in Selections(LevelActors, MaxWorldSel),
          ContentList \in Selections(SwapObjects \cup {InvalidAsset}, MaxLibSel),
          n \in 0..MaxWorldSel :
          /\ n <= Len(SelectList)
          /\ SwapResult("ExecuteSwap",
                        ExecuteSwap(SelectList, ContentList, SubSeq(SelectList, 1, n)))
          /\ ret' = [NoReturn EXCEPT
                        !.Selection = SelectList, !.SelectedAssets = ContentList,
                        !.level = ExecuteSwap(SelectList, ContentList,
                                              SubSeq(SelectList, 1, n)).level,
                        !.assigned = BothAssigned]
    /\ UNCHANGED <<normVars, files, geometry, assets, resolver, session>>

\* a call of DuplicateAndSwap with the record of any object, or with a
\* record that holds no object; ret.collected is the record handed in,
\* ret.imported the record handed back
DoDuplicateAndSwap ==
    /\ op = "none"
    /\ \E InAsset \in {GetExportInfo(a) : a \in SwapObjects} \cup {DefaultExportAsset},
          dupOk \in BOOLEAN, matOk \in BOOLEAN,
          selected \in Selections(LevelActors, MaxWorldSel) :
          /\ SwapResult("DuplicateAndSwap",
                        DuplicateAndSwap(InAsset, dupOk, matOk, selected))
          /\ assets' = assets @@
                [k \in {GetPathWithoutExt(
                            DuplicateAndSwap(InAsset, dupOk, matOk, selected).created[i].ObjectPath) :
                            i \in DOMAIN DuplicateAndSwap(InAsset, dupOk, matOk, selected).created}
                    |-> DuplicateAndSwap(InAsset, dupOk, matOk, selected).created[1]]
          /\ ret' = [NoReturn EXCEPT
                        !.Selection = selected, !.collected = <<InAsset>>,
                        !.imported =
                            IF DuplicateAndSwap(InAsset, dupOk, matOk, selected).fatal = ""
                            THEN <<DuplicateAndSwap(InAsset, dupOk, matOk, selected).OutAsset>>
                            ELSE <<>>,
                        !.level = DuplicateAndSwap(InAsset, dupOk, matOk, selected).level,
                        !.fatal = DuplicateAndSwap(InAsset, dupOk, matOk, selected).fatal,
                        !.crashed = DuplicateAndSwap(InAsset, dupOk, matOk, selected).fatal # "",
                        !.assigned = DuplicateAndSwap(InAsset, dupOk, matOk, selected).assigned]
    /\ UNCHANGED <<normVars, files, geometry, resolver, session>>

SwapInit ==
    /\ NormIdle
    /\ files = [f \in FileNames |-> NoFile]
    /\ geometry = {}
    /\ op = "none"
    /\ bIsSuccessful \in BOOLEAN
    /\ OutMessage \in {NoMessage, StaleMessage}
    /\ ret = NoReturn
    /\ assets = <<>>
    /\ resolver = NoResolver
    /\ session = NoSession

SwapNext == DoExecuteSwap \/ DoDuplicateAndSwap

SpecSwap == SwapInit /\ [][SwapNext]_vars

SwapReturned == op \in {"ExecuteSwap", "DuplicateAndSwap"}

\* the object the record handed to DuplicateAndSwap points to
SwapSource == ObjectAt(ret.collected[1].ModelPtr)

\* C27: every return of ExecuteSwap and of DuplicateAndSwap has assigned
\* both the boolean outcome and the message, and no call ends in the
\* dereference of a null handle.
C27_OutcomeAlwaysAssigned ==
    SwapReturned => ret.assigned = BothAssigned /\ ret.fatal = ""

\* C27, as far as the code goes: ExecuteSwap assigns both out-parameters on
\* every return; DuplicateAndSwap does so exactly when the record points to
\* a static mesh and the call gets past the material slots, which it does
\* not when a slot before the first failing duplication holds no material.
C27_OutcomeAssignedBySwap ==
    /\ op = "ExecuteSwap" => ret.assigned = BothAssigned /\ ret.fatal = ""
    /\ op = "DuplicateAndSwap" =>
          /\ ret.assigned \in {{}, BothAssigned}
          /\ ret.assigned = BothAssigned <=>
                /\ ret.collected[1].ModelPtr # NullPtr
                /\ SwapSource.class = "StaticMesh"
                /\ ret.fatal = ""
          /\ ret.fatal # "" =>
                /\ SwapSource.class = "StaticMesh"
                /\ \E i \in 1..Len(SwapSource.Materials) :
                      SwapSource.Materials[i].MaterialInterface = <<>>
          /\ ret.assigned = BothAssigned /\ bIsSuccessful =>
                /\ ret.Selection # <<>>
                /\ \A i \in 1..Len(ret.level) :
                      ret.level[i].asset.ptr = ret.imported[1].ModelPtr

\* DuplicateAndSwap was handed the record of a skeletal mesh while actors
\* were selected: it returned with the message the caller had left
C27_Witness ==
    /\ op = "DuplicateAndSwap"
    /\ ret.collected[1].ModelPtr = asset_Bar.ptr
    /\ ret.Selection # <<>>
    /\ ret.assigned = {}
    /\ OutMessage = StaleMessage
    /\ bIsSuccessful

(***************************************************************************)
(* The destination of one record: the name GenerateImport recovers from    *)
(* Model and the package name it builds, for every Model of at most        *)
(* MaxModelLen characters.                                                 *)
(***************************************************************************)
MaxModelLen == 4

ModelChars == {"/", ".", "H", "x"}

ModelStrings == UNION {[1..n -> ModelChars] : n \in 0..MaxModelLen}

\* the internal paths of the records: the content root itself, a folder,
\* a folder given with the content root and a folder with a trailing "/"
DestinationPaths == {<<>>, SlashLed(<<s_A>>), SlashLed(<<s_Game, s_A>>), SlashLed(<<s_A>>) \o s_Slash}

DestinationItems ==
    {[DefaultExportAsset EXCEPT !.Model = m, !.InternalPath = p, !.ShortName = s_Hero] :
        m \in ModelStrings, p \in DestinationPaths}

\* the part of GenerateImport's loop body that names the destination of
\* the record in ret.collected
ImportDestination ==
    /\ op = "none"
    /\ op' = "ImportPackageName"
    /\ ret' = [ret EXCEPT !.imported =
                  <<[name |-> OriginalName(ret.collected[1]),
                     package |-> ImportPackageName(
                                     NormalizePath(ret.collected[1].InternalPath),
                                     OriginalName(ret.collected[1]))]>>]
    /\ UNCHANGED <<normVars, files, geometry, bIsSuccessful, OutMessage, assets,
                   resolver, session>>

DestinationInit ==
    /\ NormIdle
    /\ files = [f \in FileNames |-> NoFile]
    /\ geometry = {}
    /\ op = "none"
    /\ bIsSuccessful = FALSE
    /\ OutMessage = NoMessage
    /\ ret \in {[NoReturn EXCEPT !.collected = <<Item>>] : Item \in DestinationItems}
    /\ assets = <<>>
    /\ resolver = NoResolver
    /\ session = NoSession

DestinationNext == ImportDestination

SpecDestination == DestinationInit /\ [][DestinationNext]_vars

DestinationNamed == op = "ImportPackageName"
NamedItem == ret.collected[1]
NamedModel == ret.collected[1].Model

\* the positions of the last "/" of Model and of the "." at or after it
IsLastSlash(i) ==
    /\ NamedModel[i] = "/"
    /\ \A k \in (i + 1)..Len(NamedModel) : NamedModel[k] # "/"
IsFirstDotFrom(i, d) ==
    /\ d >= i
    /\ NamedModel[d] = "."
    /\ \A k \in i..(d - 1) : NamedModel[k] # "."

\* the name the record's destination gets, as the text of the claim gives it
NameRecovered ==
    /\ \A i, d \in 1..Len(NamedModel) :
          IsLastSlash(i) /\ IsFirstDotFrom(i, d) =>
             ret.imported[1].name = SubSeq(NamedModel, i + 1, d - 1)
    /\ (~\E i, d \in 1..Len(NamedModel) : IsLastSlash(i) /\ IsFirstDotFrom(i, d)) =>
          ret.imported[1].name = NamedItem.ShortName

\* "/Game" + normalized internal path + "/" + name
PlainDestination ==
    s_SlashGame \o NormalizePath(NamedItem.InternalPath) \o s_Slash \o ret.imported[1].name

HasDoubledSlash(s) == \E i \in 1..(Len(s) - 1) : s[i] = "/" /\ s[i + 1] = "/"

NoSlashes(s) == SelectSeq(s, LAMBDA c : c # "/")

PlainFolderPath(p) ==
    /\ Len(p) >= 2 /\ p[1] = "/" /\ p[2] # "/"
    /\ ~FStringEq(ParseIntoArray(p)[1], s_Game)
    /\ ~FStringEq(ParseIntoArray(p)[1], s_Content)
    /\ ~LeadingDoubled(p)

\* C30: a path that starts with a single "/", whose first segment is not
\* exactly "Game" or "Content" and differs from its second segment, is
\* returned unchanged, also when the first segment only begins with the
\* name of a content root ("/GameAssets/Hero", "/ContentPacks/Hero").
C30_PlainPathUnchanged ==
    Len(NormHistory) >= 1 /\ PlainFolderPath(InternalPath) => Normalized = InternalPath

\* C30, as far as the code goes: such a path is returned unchanged exactly
\* when its text does not begin with "/Game" or "/Content"; when it does,
\* that text is cut out of the first segment and the result is shorter.
C30_UnchangedUnlessRootText ==
    Len(NormHistory) >= 1 /\ PlainFolderPath(InternalPath) =>
       /\ Normalized = InternalPath <=>
             ~StartsWith(InternalPath, s_SlashGame) /\ ~StartsWith(InternalPath, s_SlashContent)
       /\ Normalized # InternalPath => Len(Normalized) < Len(InternalPath)

\* the folder GameAssets lost the beginning of its name
C30_Witness ==
    /\ Len(NormHistory) >= 1
    /\ InternalPath = ex_GameAssetsHero
    /\ Normalized = ex_AssetsHero

=============================================================================
